---- MODULE Spec2Model ----
(***************************************************************************)
(* A model of the ambient-documentation demo: the session relay of         *)
(* backend/ambientStream.js (one browser WebSocket bridged to one provider *)
(* stream socket) and the fact reconciliation of the browser client        *)
(* (src/components/AmbientDocumentation.tsx).                              *)
(*                                                                         *)
(* Spec       the relay of one session: handleAmbientConnection and the    *)
(*            handlers it attaches, driven by the browser and the provider *)
(* FactsSpec  the client's setFacts updater, driven by facts messages      *)
(* DenialSpec    the relay with every configuration denial                 *)
(* ResultsSpec   the relay with transcript, facts and ENDED messages       *)
(* ScenarioSpec  one whole session, relay and browser client together      *)
(* TranscriptSpec  the client's transcript case, driven by transcript       *)
(*                 messages                                                 *)
(* RevisionSpec  the relay and the client with revisions of one segment     *)
(* UsageSpec     the relay and the client with usage messages and reset     *)
(* PairSpec      two concurrent sessions of the relay                       *)
(* GatewaySpec   the REST gateway of backend/server.js                      *)
(* DocumentSpec  the document panel (DocumentGeneration): generate, switch *)
(*               the view, render                                           *)
(* ClientSpec    the client's controls, recorder and socket with the relay  *)
(***************************************************************************)
EXTENDS Integers, Sequences, FiniteSets, TLC

\* ------------------------------------------------------------------ bounds
\* Messages the browser sends on its WebSocket in one session.
MaxClientMsgs == 3
\* Events the provider stream socket emits in one session.
MaxProviderEvents == 2
\* Updates in one facts message.
MaxBatchLen == 3
\* Segments in the data array of one transcript message, and updates in the
\* array of one facts message, as the relay sees them.
MaxPayloadLen == 2
\* Events one of two concurrent sessions handles.
MaxSessionEvents == 4
\* Requests the REST gateway handles.
MaxRequests == 2
\* Sections of one generated document.
MaxSections == 3

\* ------------------------------------------------------- relay: vocabulary
\* ws readyState values read by sendToClient (1 is OPEN).
OPEN == 1
CLOSING == 2
CLOSED == 3

\* What a browser frame looks like to clientWs.on('message'):
\*   audio       first byte is not '{'
\*   braceAudio  first byte is '{' but JSON.parse throws
\*   flush, end  JSON control messages
\*   jsonOther   valid JSON whose type is neither flush nor end
ClientKinds == {"audio", "braceAudio", "flush", "end", "jsonOther"}

\* The kinds the relay treats as audio payload.
AudioKinds == {"audio", "braceAudio"}

DenialKinds == {"CONFIG_DENIED", "CONFIG_MISSING", "CONFIG_NOT_PROVIDED",
                "CONFIG_ALREADY_RECEIVED", "CONFIG_TIMEOUT"}

\* msg.reason of a denial; "" stands for an absent (falsy) reason.
Reasons == {"", "bad-language"}

\* The members a stream handle may expose besides sendAudio (closeStream and
\* the flush case test them with typeof).
HandleShapes == {{"sendEnd", "sendFlush", "close"}, {"close"}}

\* ------------------------------------------------------- facts: vocabulary
FactIds == {"f1", "f2"}
Texts == {"a", "b", "c"}

\* One element of the facts array of a facts message; the other attributes of a
\* fact (group, source, timestamps) travel with text and are stood for by it.
\* The attributes of a discarded update are never stored, so one text stands
\* for them.
Updates ==
    [id : FactIds, text : Texts, isDiscarded : {FALSE}]
    \cup [id : FactIds, text : {"a"}, isDiscarded : {TRUE}]

\* The facts arrays of at most MaxBatchLen updates.
Batches == UNION {[1..n -> Updates] : n \in 0..MaxBatchLen}

\* ------------------------------------------------- relay: provider messages
\* The transcripts of segments.
SegmentTexts == {"foo", "bar"}

\* One element of the data array of a transcript message (segment.id,
\* segment.time.start, segment.transcript, segment.final); the speaker
\* fields travel with id. start 0 stands for every falsy segment.time?.start:
\* a start time of 0, an absent start and an absent time.
Segments == [id : {"s1", "s2"}, start : {0, 5}, text : SegmentTexts, final : BOOLEAN]

\* The values Math.random() returns in the model: two different draws (two
\* calls may also return the same one).
Randoms == {1, 2}

\* msg.credits of a usage message.
Credits == {1, 2}

\* msg.data of a transcript message, when it is an array.
TranscriptArrays == UNION {[1..n -> Segments] : n \in 0..MaxPayloadLen}

\* msg.fact || msg.facts || msg.data of a facts message, when it is an array.
FactsArrays == {b \in Batches : Len(b) <= MaxPayloadLen}

\* A provider message: msg.type, the reason of a denial, and the array of a
\* transcript or facts message (isArray is false when the message has no
\* such array: the field is absent, falsy or not an array). The data of a
\* usage message is its credits, <<msg.credits>>.
ProviderMsg(type, reason, isArray, data) ==
    [type |-> type, reason |-> reason, isArray |-> isArray, data |-> data]

ProviderMessages ==
    {ProviderMsg("CONFIG_ACCEPTED", "", FALSE, <<>>)}
    \cup {ProviderMsg(k, r, FALSE, <<>>) : k \in DenialKinds, r \in Reasons}
    \cup {ProviderMsg("transcript", "", FALSE, <<>>)}
    \cup {ProviderMsg("transcript", "", TRUE, d) : d \in TranscriptArrays}
    \cup {ProviderMsg("facts", "", FALSE, <<>>)}
    \cup {ProviderMsg("facts", "", TRUE, d) : d \in FactsArrays}
    \cup {ProviderMsg("usage", "", FALSE, <<c>>) : c \in Credits}
    \cup {ProviderMsg(t, "", FALSE, <<>>) :
            t \in {"flushed", "ENDED", "error", "other"}}

VARIABLES
    \* handleAmbientConnection's position: "creating" (awaiting
    \* interactions.create), "connecting" (awaiting stream.connect),
    \* "attached" (all handlers attached), "failed" (returned from a catch)
    phase,
    interactionId,      \* "null" or the provider's id
    streamSocket,       \* "null" or "handle"
    handleShape,        \* the optional members of the handle
    isConfigAccepted,
    isStreamClosed,
    audioQueue,         \* sequence of queued frames
    audioChunkCount,
    isClientConnected,
    clientReadyState,   \* clientWs.readyState
    \* the environment and what the relay did to it
    providerOpen,       \* the provider connection has not emitted close
    toClient,           \* messages passed to clientWs.send, in order
    providerCalls,      \* calls made on the stream handle, in order
    clientCloseCalls,   \* number of clientWs.close() calls by the relay
    nClientMsgs,        \* browser messages so far (the next frame's number)
    nProviderEvents,
    \* history
    rxAudio,            \* audio frames dispatched to the message handler while the stream was live
    unheard,            \* frames that arrived before the message handler was attached
    everAccepted,       \* CONFIG_ACCEPTED was handled
    denied,             \* a configuration denial was handled
    providerEnded,      \* ENDED was handled
    endSent,            \* closeStream ran to its end (end control requested)
    audioFailed,        \* some sendAudio call threw
    flushFailed,        \* some sendFlush call threw
    \* the client's fact list and its history
    facts,              \* the facts state of the component, a list
    lastUpdate,         \* per id, the last update received: "none", "discard" or its text
    removed,            \* ids that were discarded while visible
    \* the client's transcript and its history
    segments,           \* the segments state of the component, a list
    interimText,        \* the interimText state
    lastApplied,        \* the last transcript message handled: "none", "interim", or a
                        \* final one that was "appended" or "replaced" an entry
    interimBefore,      \* interimText as it was when that message arrived
    \* the client's usage counter and socket
    credits,            \* the credits state: NoCredits (null) or a number
    wsRef,              \* wsRef.current: "open" or "null"
    wasReset,           \* reset() was called
    nDelivered,         \* messages of toClient the browser's onmessage has handled
    \* the client's controls
    status,             \* the status state: "connecting", "connected", "disconnected", "error"
    isStreaming,
    isEnding,
    error,              \* the error state: "" or the text shown
    wsState,            \* readyState of the browser's socket: "open", "closing", "closed"
    streamRef,          \* streamRef.current holds the microphone stream
    recorder,           \* the MediaRecorder: "none", "recording", or "stopping"
                        \* (stop() was called, its last chunk is still to come)
    toRelay,            \* frames the browser sent that the relay has not received yet
    closeSeen,          \* the browser's socket has dispatched its close event
    \* the document panel
    document,           \* the document state: NoDocument (null) or <<doc>>
    received,           \* the document as the gateway returned it
    viewMode,           \* "formatted" or "json"
    documentError,      \* the panel's error state
    \* two concurrent sessions of the relay
    pair,
    \* the REST gateway
    httpLast,           \* the last request handled, with what it called and answered
    nRequests

relayVars == <<phase, interactionId, streamSocket, handleShape, isConfigAccepted,
               isStreamClosed, audioQueue, audioChunkCount, isClientConnected,
               clientReadyState, providerOpen, toClient, providerCalls,
               clientCloseCalls, nClientMsgs, nProviderEvents, rxAudio, unheard,
               everAccepted, denied, providerEnded, endSent, audioFailed, flushFailed>>

factVars == <<facts, lastUpdate, removed>>

transcriptVars == <<segments, interimText, lastApplied, interimBefore>>

uiVars == <<status, isStreaming, isEnding, error, wsState, streamRef, recorder,
           toRelay, closeSeen>>

clientVars == <<factVars, transcriptVars, credits, wsRef, wasReset, nDelivered, uiVars>>

docVars == <<document, received, viewMode, documentError>>

gatewayVars == <<httpLast, nRequests>>

\* What no handler of the one relayed session touches.
outsideVars == <<clientVars, pair, gatewayVars, docVars>>

vars == <<relayVars, clientVars, pair, gatewayVars, docVars>>

\* ---------------------------------------------------------- relay: helpers
\* Mutant of sendToClient: isClientConnected is not tested.
\* sendToClient (ambientStream.js 20-31): the message is sent only when the
\* client is marked connected and its socket is OPEN.
SendToClientIgnoresFlag(out, data) ==
    IF clientReadyState = OPEN THEN Append(out, data) ELSE out

SendToClient(out, data) ==
    IF isClientConnected /\ clientReadyState = OPEN THEN Append(out, data) ELSE out

\* Mutant of sendToClient: nothing is sent once the stream is marked closed.
SendAllWhileLive(out, msgs) ==
    IF isClientConnected /\ clientReadyState = OPEN /\ ~isStreamClosed THEN out \o msgs ELSE out

SendAll(out, msgs) ==
    IF isClientConnected /\ clientReadyState = OPEN THEN out \o msgs ELSE out

Call(op, frame) == [op |-> op, frame |-> frame]

\* The sendAudio calls among a sequence of provider calls, as frames.
AudioFrames(calls) ==
    LET idx == {i \in 1..Len(calls) : calls[i].op = "sendAudio"}
        F[i \in 0..Len(calls)] ==
            IF i = 0 THEN <<>>
            ELSE IF i \in idx THEN Append(F[i - 1], calls[i].frame) ELSE F[i - 1]
    IN F[Len(calls)]

\* A message of the client protocol: its type, up to two text fields (a, b)
\* and its array (data: the segment of a transcript message, the facts of a
\* facts message).
ClientMsg(type, a, b) == [type |-> type, a |-> a, b |-> b, data |-> <<>>]

DataMsg(type, data) == [type |-> type, a |-> "", b |-> "", data |-> data]

\* The data of the transcript message sent for one segment (236-247): the
\* composite id segment.id + '-' + (segment.time?.start || Math.random()),
\* where r is what Math.random() returns when it is called, then text,
\* isFinal and start.
SegmentData(segment, r) ==
    [id |-> <<segment.id, IF segment.start = 0 THEN r ELSE segment.start>>,
     text |-> segment.text, isFinal |-> segment.final, start |-> segment.start]

\* What the Math.random() calls of one provider message may return: one draw
\* for each segment of a transcript array whose start is falsy (0 where
\* Math.random is not called).
RandomDraws(msg) ==
    IF msg.type = "transcript" /\ msg.isArray
    THEN {f \in [1..Len(msg.data) -> Randoms \cup {0}] :
             \A i \in 1..Len(msg.data) : (f[i] = 0) <=> (msg.data[i].start # 0)}
    ELSE {<<>>}

\* The element of the facts message sent for one fact (257-266).
FactData(f) == [id |-> f.id, text |-> f.text, isDiscarded |-> f.isDiscarded]

\* Mutant of the denial text: a fixed text, the reason is lost.
DenialTextFixed(msg) == "Configuration error"

\* The text of the error message of a denial (ambientStream.js 227):
\* `${msg.type}: ${msg.reason || 'Unknown reason'}`.
DenialText(msg) == IF msg.reason = "" THEN "Unknown reason" ELSE msg.reason

\* Mutant of handleCortiMessage: the segments of a transcript message are
\* sent last first.
NormalizeLastFirst(msg, rnds) ==
    IF msg.type = "transcript" /\ msg.isArray
    THEN [i \in 1..Len(msg.data) |->
            DataMsg("transcript", <<SegmentData(msg.data[Len(msg.data) + 1 - i],
                                                rnds[Len(msg.data) + 1 - i])>>)]
    ELSE IF msg.type = "facts" /\ msg.isArray
    THEN <<DataMsg("facts", [i \in 1..Len(msg.data) |-> FactData(msg.data[i])])>>
    ELSE IF msg.type = "ENDED" THEN <<ClientMsg("ended", "", "")>>
    ELSE <<>>

\* handleCortiMessage (ambientStream.js 213-300): the normalized messages one
\* provider message is turned into, rnds being what its Math.random() calls
\* return.
Normalize(msg, rnds) ==
    CASE msg.type = "CONFIG_ACCEPTED" -> <<ClientMsg("CONFIG_ACCEPTED", "", "")>>
      [] msg.type \in DenialKinds -> <<ClientMsg("error", msg.type, DenialText(msg))>>
      [] msg.type = "transcript" ->
            IF ~msg.isArray THEN <<>>
            ELSE [i \in 1..Len(msg.data) |->
                     DataMsg("transcript", <<SegmentData(msg.data[i], rnds[i])>>)]
      [] msg.type = "facts" ->
            IF ~msg.isArray THEN <<>>
            ELSE <<DataMsg("facts", [i \in 1..Len(msg.data) |-> FactData(msg.data[i])])>>
      [] msg.type = "flushed" -> <<ClientMsg("flushed", "", "")>>
      [] msg.type = "usage" -> <<DataMsg("usage", msg.data)>>
      [] msg.type = "ENDED" -> <<ClientMsg("ended", "", "")>>
      [] msg.type = "error" -> <<ClientMsg("error", "Stream error", "")>>
      [] OTHER -> <<>>


\* Mutant of the flush: the queue is sent newest first.
FlushCallsNewestFirst(queue) ==
    [i \in 1..Len(queue) |-> Call("sendAudio", queue[Len(queue) + 1 - i])]

\* The sendAudio calls of onConfigAccepted's flush (ambientStream.js 113-119):
\* audioQueue.forEach visits the chunks in queue order, one call per chunk
\* (a call that throws is caught inside the loop, which goes on).
FlushCalls(queue) == [i \in 1..Len(queue) |-> Call("sendAudio", queue[i])]

\* Mutant of closeStream's call: the socket is closed abruptly even when the
\* handle has sendEnd.
CloseCallsAbrupt(shape) == <<Call("close", 0)>>

\* closeStream (ambientStream.js 34-53): the call it makes on the handle.
CloseCalls(shape) ==
    IF "sendEnd" \in shape THEN <<Call("sendEnd", 0)>>
    ELSE IF "close" \in shape THEN <<Call("close", 0)>>
    ELSE <<>>

\* Mutant of closeStream: the isStreamClosed test is missing.
CloseStreamUnguarded ==
    IF streamSocket = "null"
    THEN UNCHANGED <<providerCalls, isStreamClosed, endSent>>
    ELSE /\ providerCalls' = providerCalls \o CloseCalls(handleShape)
         /\ isStreamClosed' = TRUE
         /\ endSent' = TRUE

\* closeStream as a step: nothing when the stream is closed or absent.
CloseStream ==
    IF isStreamClosed \/ streamSocket = "null"
    THEN UNCHANGED <<providerCalls, isStreamClosed, endSent>>
    ELSE /\ providerCalls' = providerCalls \o CloseCalls(handleShape)
         /\ isStreamClosed' = TRUE
         /\ endSent' = TRUE

\* Mutant of sendAudioChunk: the frame is sent whether the session is ready
\* or not.
SendAudioChunkUngated(frame, isReady, ok) ==
    /\ providerCalls' = Append(providerCalls, Call("sendAudio", frame))
    /\ audioChunkCount' = IF ok THEN audioChunkCount + 1 ELSE audioChunkCount
    /\ audioFailed' = (audioFailed \/ ~ok)
    /\ UNCHANGED audioQueue

\* Mutant of sendAudioChunk: after a sendAudio call that threw, frames are
\* queued and no longer sent.
SendAudioChunkGivesUp(frame, isReady, ok) ==
    IF ~isReady \/ audioFailed
    THEN /\ audioQueue' = Append(audioQueue, frame)
         /\ UNCHANGED <<providerCalls, audioChunkCount, audioFailed>>
    ELSE /\ providerCalls' = Append(providerCalls, Call("sendAudio", frame))
         /\ audioChunkCount' = IF ok THEN audioChunkCount + 1 ELSE audioChunkCount
         /\ audioFailed' = (audioFailed \/ ~ok)
         /\ UNCHANGED audioQueue

\* Mutant of sendAudioChunk: the frame is queued as well when the session is
\* ready.
SendAudioChunkQueuesToo(frame, isReady, ok) ==
    IF ~isReady
    THEN /\ audioQueue' = Append(audioQueue, frame)
         /\ UNCHANGED <<providerCalls, audioChunkCount, audioFailed>>
    ELSE /\ providerCalls' = Append(providerCalls, Call("sendAudio", frame))
         /\ audioChunkCount' = IF ok THEN audioChunkCount + 1 ELSE audioChunkCount
         /\ audioFailed' = (audioFailed \/ ~ok)
         /\ audioQueue' = Append(audioQueue, frame)

\* sendAudioChunk (ambientStream.js 196-211): queue while not ready, else one
\* sendAudio call; the counter moves only when the call returned.
SendAudioChunk(frame, isReady, ok) ==
    IF ~isReady
    THEN /\ audioQueue' = Append(audioQueue, frame)
         /\ UNCHANGED <<providerCalls, audioChunkCount, audioFailed>>
    ELSE /\ providerCalls' = Append(providerCalls, Call("sendAudio", frame))
         /\ audioChunkCount' = IF ok THEN audioChunkCount + 1 ELSE audioChunkCount
         /\ audioFailed' = (audioFailed \/ ~ok)
         /\ UNCHANGED audioQueue

\* ------------------------------------------------------------ relay: Init
RelayInit ==
    /\ phase = "creating"
    /\ interactionId = "null"
    /\ streamSocket = "null"
    /\ handleShape = {}
    /\ isConfigAccepted = FALSE
    /\ isStreamClosed = FALSE
    /\ audioQueue = <<>>
    /\ audioChunkCount = 0
    /\ isClientConnected = TRUE
    /\ clientReadyState = OPEN
    /\ providerOpen = FALSE
    /\ toClient = <<>>
    /\ providerCalls = <<>>
    /\ clientCloseCalls = 0
    /\ nClientMsgs = 0
    /\ nProviderEvents = 0
    /\ rxAudio = <<>>
    /\ unheard = {}
    /\ everAccepted = FALSE
    /\ denied = FALSE
    /\ providerEnded = FALSE
    /\ endSent = FALSE
    /\ audioFailed = FALSE
    /\ flushFailed = FALSE

FactsInit ==
    /\ facts = <<>>
    /\ lastUpdate = [x \in FactIds |-> "none"]
    /\ removed = {}

\* The credits state when it is null (AmbientDocumentation.tsx 41); a number
\* n is <<n>>.
NoCredits == <<>>

\* The component as it is when a recording starts (30-41) and startStreaming
\* (60-87) has run: status 'connecting', the microphone stream held, the
\* socket open.
ClientInit ==
    /\ FactsInit
    /\ segments = <<>>
    /\ interimText = ""
    /\ lastApplied = "none"
    /\ interimBefore = ""
    /\ credits = NoCredits
    /\ wsRef = "open"
    /\ wasReset = FALSE
    /\ nDelivered = 0
    /\ status = "connecting"
    /\ isStreaming = FALSE
    /\ isEnding = FALSE
    /\ error = ""
    /\ wsState = "open"
    /\ streamRef = TRUE
    /\ recorder = "none"
    /\ toRelay = <<>>
    /\ closeSeen = FALSE

\* --------------------------------------------- relay: handleAmbientConnection
sessionVars == <<isConfigAccepted, isStreamClosed, audioQueue, audioChunkCount,
                 isClientConnected>>
historyVars == <<rxAudio, unheard, everAccepted, denied, providerEnded, endSent,
                 audioFailed, flushFailed>>

\* Mutant of the catch blocks: clientWs.close() is not called.
RelayClosesClientSkipped == UNCHANGED <<clientCloseCalls, clientReadyState>>

\* clientWs.close() called by the relay: an OPEN socket starts closing.
RelayClosesClient ==
    /\ clientCloseCalls' = clientCloseCalls + 1
    /\ clientReadyState' = IF clientReadyState = OPEN THEN CLOSING ELSE clientReadyState

\* Step 1 (56-72): interactions.create resolved.
CreateOk ==
    /\ phase = "creating"
    /\ interactionId' = "id1"
    /\ toClient' = SendToClient(toClient, ClientMsg("session_started", "id1", ""))
    /\ phase' = "connecting"
    /\ UNCHANGED <<streamSocket, handleShape, sessionVars, clientReadyState, providerOpen,
                   providerCalls, clientCloseCalls, nClientMsgs, nProviderEvents,
                   historyVars>>
    /\ UNCHANGED outsideVars

\* Step 1 (74-79): interactions.create rejected.
CreateFails ==
    /\ phase = "creating"
    /\ toClient' = SendToClient(toClient, ClientMsg("error", "Failed to create interaction", ""))
    /\ RelayClosesClient
    /\ phase' = "failed"
    /\ UNCHANGED <<interactionId, streamSocket, handleShape, sessionVars, providerOpen,
                   providerCalls, nClientMsgs, nProviderEvents, historyVars>>
    /\ UNCHANGED outsideVars

\* Step 2 (100-133): stream.connect resolved; the provider handlers are
\* attached, then (143-193) the client handlers, without suspension between.
ConnectOk(shape) ==
    /\ phase = "connecting"
    /\ streamSocket' = "handle"
    /\ handleShape' = shape
    /\ providerOpen' = TRUE
    /\ phase' = "attached"
    /\ UNCHANGED <<interactionId, sessionVars, clientReadyState, toClient, providerCalls,
                   clientCloseCalls, nClientMsgs, nProviderEvents, historyVars>>
    /\ UNCHANGED outsideVars

\* Step 2 (135-140): stream.connect rejected.
ConnectFails ==
    /\ phase = "connecting"
    /\ toClient' = SendToClient(toClient, ClientMsg("error", "Failed to connect to stream", ""))
    /\ RelayClosesClient
    /\ phase' = "failed"
    /\ UNCHANGED <<interactionId, streamSocket, handleShape, sessionVars, providerOpen,
                   providerCalls, nClientMsgs, nProviderEvents, historyVars>>
    /\ UNCHANGED outsideVars

\* ------------------------------------------------- relay: client handlers
\* clientWs.on('message') (143-176) for the frame numbered n of the given
\* kind. ok is the outcome of the sendAudio call, fok of the sendFlush call
\* (a throw of sendFlush lands in the catch of 169-172, which forwards the
\* control message as audio).
OnClientMessage(n, kind, ok, fok) ==
    IF isStreamClosed \/ streamSocket = "null"
    THEN UNCHANGED <<audioQueue, providerCalls, audioChunkCount, audioFailed,
                     isStreamClosed, endSent, flushFailed>>
    ELSE CASE kind \in AudioKinds ->
                /\ SendAudioChunk(n, isConfigAccepted, ok)
                /\ UNCHANGED <<isStreamClosed, endSent, flushFailed>>
           [] kind = "flush" /\ "sendFlush" \notin handleShape ->
                UNCHANGED <<audioQueue, providerCalls, audioChunkCount, audioFailed,
                            isStreamClosed, endSent, flushFailed>>
           [] kind = "flush" /\ "sendFlush" \in handleShape /\ fok ->
                /\ providerCalls' = Append(providerCalls, Call("sendFlush", 0))
                /\ UNCHANGED <<audioQueue, audioChunkCount, audioFailed,
                               isStreamClosed, endSent, flushFailed>>
           [] kind = "flush" /\ "sendFlush" \in handleShape /\ ~fok ->
                /\ flushFailed' = TRUE
                /\ IF ~isConfigAccepted
                   THEN /\ audioQueue' = Append(audioQueue, n)
                        /\ providerCalls' = Append(providerCalls, Call("sendFlush", 0))
                        /\ UNCHANGED <<audioChunkCount, audioFailed>>
                   ELSE /\ providerCalls' = providerCalls \o
                              <<Call("sendFlush", 0), Call("sendAudio", n)>>
                        /\ audioChunkCount' = IF ok THEN audioChunkCount + 1 ELSE audioChunkCount
                        /\ audioFailed' = (audioFailed \/ ~ok)
                        /\ UNCHANGED audioQueue
                /\ UNCHANGED <<isStreamClosed, endSent>>
           [] kind = "end" ->
                /\ CloseStream
                /\ UNCHANGED <<audioQueue, audioChunkCount, audioFailed, flushFailed>>
           [] OTHER ->
                UNCHANGED <<audioQueue, providerCalls, audioChunkCount, audioFailed,
                            isStreamClosed, endSent, flushFailed>>

\* One frame of the browser reaches the relay. Before the message handler is
\* attached the 'message' event has no listener and the frame is gone.
FrameBody(kind, ok, fok) ==
    /\ clientReadyState # CLOSED
    /\ nClientMsgs' = nClientMsgs + 1
    /\ IF phase = "attached"
       THEN /\ OnClientMessage(nClientMsgs + 1, kind, ok, fok)
            /\ rxAudio' = IF kind \in AudioKinds /\ ~isStreamClosed
                          THEN Append(rxAudio, nClientMsgs + 1)
                          ELSE rxAudio
            /\ UNCHANGED unheard
       ELSE /\ unheard' = unheard \cup {nClientMsgs + 1}
            /\ UNCHANGED <<audioQueue, providerCalls, audioChunkCount, audioFailed,
                           isStreamClosed, endSent, flushFailed, rxAudio>>
    /\ UNCHANGED <<phase, interactionId, streamSocket, handleShape, isConfigAccepted,
                   isClientConnected, clientReadyState, providerOpen, toClient,
                   clientCloseCalls, nProviderEvents, everAccepted, denied, providerEnded>>

Frame(kind, ok, fok) ==
    /\ FrameBody(kind, ok, fok)
    /\ UNCHANGED outsideVars

\* A frame of a session of at most MaxClientMsgs frames.
ClientMessage(kind, ok, fok) ==
    /\ nClientMsgs < MaxClientMsgs
    /\ Frame(kind, ok, fok)

\* The browser connection closes; clientWs.on('close') (179-188) runs when
\* it is attached.
ClientDisconnect ==
    /\ clientReadyState # CLOSED
    /\ clientReadyState' = CLOSED
    /\ IF phase = "attached"
       THEN /\ isClientConnected' = FALSE
            /\ CloseStream
       ELSE UNCHANGED <<isClientConnected, providerCalls, isStreamClosed, endSent>>
    /\ UNCHANGED <<phase, interactionId, streamSocket, handleShape, isConfigAccepted,
                   audioQueue, audioChunkCount, providerOpen, toClient, clientCloseCalls,
                   nClientMsgs, nProviderEvents, rxAudio, unheard, everAccepted, denied,
                   providerEnded, audioFailed, flushFailed>>
    /\ UNCHANGED outsideVars

\* clientWs.on('error') (190-193).
ClientError ==
    /\ phase = "attached"
    /\ clientReadyState # CLOSED
    /\ isClientConnected
    /\ isClientConnected' = FALSE
    /\ UNCHANGED <<phase, interactionId, streamSocket, handleShape, isConfigAccepted,
                   isStreamClosed, audioQueue, audioChunkCount, clientReadyState,
                   providerOpen, toClient, providerCalls, clientCloseCalls, nClientMsgs,
                   nProviderEvents, historyVars>>
    /\ UNCHANGED outsideVars

\* ----------------------------------------------- relay: provider handlers
\* streamSocket.on('message') (108-122) with handleCortiMessage (213-300).
\* On CONFIG_ACCEPTED the message is relayed first, then onConfigAccepted
\* opens the gate, flushes the queue and empties it.
OnProviderMessage(msg, oks) ==
    /\ phase = "attached"
    /\ providerOpen
    /\ nProviderEvents' = nProviderEvents + 1
    /\ \E rnds \in RandomDraws(msg) : toClient' = SendAll(toClient, Normalize(msg, rnds))
    /\ IF msg.type = "CONFIG_ACCEPTED"
       THEN /\ isConfigAccepted' = TRUE
            /\ providerCalls' = providerCalls \o FlushCalls(audioQueue)
            /\ audioQueue' = <<>>
            /\ audioFailed' = (audioFailed \/ \E i \in 1..Len(audioQueue) : ~oks[i])
            /\ everAccepted' = TRUE
       ELSE UNCHANGED <<isConfigAccepted, providerCalls, audioQueue, audioFailed,
                        everAccepted>>
    /\ denied' = (denied \/ msg.type \in DenialKinds)
    /\ providerEnded' = (providerEnded \/ msg.type = "ENDED")
    /\ UNCHANGED <<phase, interactionId, streamSocket, handleShape, isStreamClosed,
                   audioChunkCount, isClientConnected, clientReadyState, providerOpen,
                   clientCloseCalls, nClientMsgs, rxAudio, unheard, endSent, flushFailed>>
    /\ UNCHANGED outsideVars

\* A provider message of a session of at most MaxProviderEvents events.
ProviderMessage(msg, oks) ==
    /\ nProviderEvents < MaxProviderEvents
    /\ OnProviderMessage(msg, oks)

\* streamSocket.on('error') (124-127).
ProviderError ==
    /\ phase = "attached"
    /\ providerOpen
    /\ nProviderEvents < MaxProviderEvents
    /\ nProviderEvents' = nProviderEvents + 1
    /\ toClient' = SendToClient(toClient, ClientMsg("error", "Stream error", "socket"))
    /\ UNCHANGED <<phase, interactionId, streamSocket, handleShape, sessionVars,
                   clientReadyState, providerOpen, providerCalls, clientCloseCalls,
                   nClientMsgs, historyVars>>
    /\ UNCHANGED outsideVars

\* Mutant of streamSocket.on('close'): both flags are cleared.
ProviderCloseClearsFlags ==
    /\ phase = "attached"
    /\ providerOpen
    /\ providerOpen' = FALSE
    /\ isConfigAccepted' = FALSE
    /\ isStreamClosed' = FALSE
    /\ UNCHANGED <<phase, interactionId, streamSocket, handleShape, audioQueue,
                   audioChunkCount, isClientConnected, clientReadyState, toClient,
                   providerCalls, clientCloseCalls, nClientMsgs, nProviderEvents,
                   historyVars>>
    /\ UNCHANGED outsideVars

\* streamSocket.on('close') (129-133).
ProviderClose ==
    /\ phase = "attached"
    /\ providerOpen
    /\ providerOpen' = FALSE
    /\ isConfigAccepted' = FALSE
    /\ isStreamClosed' = TRUE
    /\ UNCHANGED <<phase, interactionId, streamSocket, handleShape, audioQueue,
                   audioChunkCount, isClientConnected, clientReadyState, toClient,
                   providerCalls, clientCloseCalls, nClientMsgs, nProviderEvents,
                   historyVars>>
    /\ UNCHANGED outsideVars

\* ------------------------------------------------- client: fact reconciliation
\* A JavaScript Map whose values carry their key in .id is modelled as the
\* sequence of its values in insertion order.

\* Mutants of Map.prototype.set: always add at the end; move a key that is
\* set again to the end.
MapSetAppends(m, f) == Append(m, f)

MapSetMovesLast(m, f) == Append(SelectSeq(m, LAMBDA g : g.id # f.id), f)

\* Map.prototype.set: an existing key keeps its place, a new key goes last.
MapSet(m, f) ==
    IF \E i \in 1..Len(m) : m[i].id = f.id
    THEN [i \in 1..Len(m) |-> IF m[i].id = f.id THEN f ELSE m[i]]
    ELSE Append(m, f)

\* Mutant of Map.prototype.delete: the entry stays.
MapDeleteKeeps(m, id) == m

\* Map.prototype.delete.
MapDelete(m, id) == SelectSeq(m, LAMBDA g : g.id # id)

\* new Map(prev.map(f => [f.id, f])) (AmbientDocumentation.tsx 165).
RECURSIVE MapFromList(_)
MapFromList(list) ==
    IF list = <<>> THEN <<>>
    ELSE MapSet(MapFromList(SubSeq(list, 1, Len(list) - 1)), list[Len(list)])

\* Mutant of the forEach body: a discarded update is stored like any other.
ApplyUpdateStoresDiscarded(m, newFact) ==
    IF \E i \in 1..Len(m) : m[i].id = newFact.id
    THEN [i \in 1..Len(m) |-> IF m[i].id = newFact.id THEN newFact ELSE m[i]]
    ELSE Append(m, newFact)

\* The body of the forEach (166-172) for one update.
ApplyUpdate(m, newFact) ==
    IF ~newFact.isDiscarded THEN MapSet(m, newFact) ELSE MapDelete(m, newFact.id)

RECURSIVE ApplyAll(_, _)
ApplyAll(m, batch) ==
    IF batch = <<>> THEN m
    ELSE ApplyAll(ApplyUpdate(m, Head(batch)), Tail(batch))

\* Mutant of the updater: a discarded id is kept in the map as a tombstone
\* and left out of the returned array.
RECURSIVE TombstoneAll(_, _)
TombstoneAll(m, batch) ==
    IF batch = <<>> THEN m
    ELSE TombstoneAll(
             IF \E i \in 1..Len(m) : m[i].id = Head(batch).id
             THEN [i \in 1..Len(m) |-> IF m[i].id = Head(batch).id THEN Head(batch) ELSE m[i]]
             ELSE Append(m, Head(batch)),
             Tail(batch))

MergeWithTombstones(prev, batch) ==
    SelectSeq(TombstoneAll(prev, batch), LAMBDA g : ~g.isDiscarded)

\* The setFacts updater (164-174): Array.from(factMap.values()) after the
\* updates of the message were applied in list order.
Merge(prev, batch) == ApplyAll(MapFromList(prev), batch)

\* History: the last update of each id, and the ids discarded while visible.
RECURSIVE LastAfter(_, _)
LastAfter(last, batch) ==
    IF batch = <<>> THEN last
    ELSE LET u == Head(batch)
         IN LastAfter([last EXCEPT ![u.id] = IF u.isDiscarded THEN "discard" ELSE u.text],
                      Tail(batch))

RECURSIVE RemovedAfter(_, _, _)
RemovedAfter(rem, last, batch) ==
    IF batch = <<>> THEN rem
    ELSE LET u == Head(batch)
         IN RemovedAfter(IF u.isDiscarded /\ last[u.id] \in Texts THEN rem \cup {u.id} ELSE rem,
                         LastAfter(last, <<u>>), Tail(batch))

\* handleWebSocketMessage, case 'facts' (162-176), for a message whose facts
\* field is the array batch.
HandleFacts(batch) ==
    /\ facts' = Merge(facts, batch)
    /\ lastUpdate' = LastAfter(lastUpdate, batch)
    /\ removed' = RemovedAfter(removed, lastUpdate, batch)

\* A facts message arrives at the component.
ReceiveFacts(batch) ==
    /\ HandleFacts(batch)
    /\ UNCHANGED <<relayVars, transcriptVars, credits, wsRef, wasReset, nDelivered,
                   uiVars, pair, gatewayVars, docVars>>

\* ------------------------------------------------------ client: transcript
\* data.text of a transcript message that has none (JSON.stringify leaves
\* out a key whose value is undefined).
NoText == "undefined"

\* The data of the transcript messages the component is given on its own:
\* two ids, a text or none, final or not.
TranscriptData ==
    [id : {"a", "b"}, text : SegmentTexts \cup {NoText}, isFinal : BOOLEAN, start : {5}]

\* { ...s, ...data } (151): the keys data has override those of s.
Spread(s, data) ==
    [id |-> data.id,
     text |-> IF data.text = NoText THEN s.text ELSE data.text,
     isFinal |-> data.isFinal,
     start |-> data.start]

\* Mutant of the setSegments updater: the segment is always appended.
UpsertAppends(prev, data) == Append(prev, data)

\* The setSegments updater (148-154).
Upsert(prev, data) ==
    IF \E i \in 1..Len(prev) : prev[i].id = data.id
    THEN [i \in 1..Len(prev) |-> IF prev[i].id = data.id THEN Spread(prev[i], data) ELSE prev[i]]
    ELSE Append(prev, data)

\* data.text || '' (157).
TextOrEmpty(text) == IF text = NoText THEN "" ELSE text

\* Mutant of the transcript case: a final segment leaves the interim text.
HandleTranscriptKeepsInterim(data) ==
    /\ IF data.isFinal
       THEN /\ segments' = Upsert(segments, data)
            /\ UNCHANGED interimText
       ELSE /\ interimText' = TextOrEmpty(data.text)
            /\ UNCHANGED segments
    /\ lastApplied' = IF ~data.isFinal THEN "interim"
                      ELSE IF \E i \in 1..Len(segments) : segments[i].id = data.id
                      THEN "replaced" ELSE "appended"
    /\ interimBefore' = interimText

\* Mutant of the transcript case: a non-final text is added to the interim
\* text that is shown.
HandleTranscriptGrowsInterim(data) ==
    /\ IF data.isFinal
       THEN /\ segments' = Upsert(segments, data)
            /\ interimText' = ""
       ELSE /\ interimText' = IF interimText = "" THEN TextOrEmpty(data.text) ELSE interimText
            /\ UNCHANGED segments
    /\ lastApplied' = IF ~data.isFinal THEN "interim"
                      ELSE IF \E i \in 1..Len(segments) : segments[i].id = data.id
                      THEN "replaced" ELSE "appended"
    /\ interimBefore' = interimText

\* handleWebSocketMessage, case 'transcript' (144-160), for a message whose
\* data is the object data.
HandleTranscript(data) ==
    /\ IF data.isFinal
       THEN /\ segments' = Upsert(segments, data)
            /\ interimText' = ""
       ELSE /\ interimText' = TextOrEmpty(data.text)
            /\ UNCHANGED segments
    /\ lastApplied' = IF ~data.isFinal THEN "interim"
                      ELSE IF \E i \in 1..Len(segments) : segments[i].id = data.id
                      THEN "replaced" ELSE "appended"
    /\ interimBefore' = interimText

\* A transcript message arrives at the component.
ReceiveTranscript(data) ==
    /\ HandleTranscript(data)
    /\ UNCHANGED <<relayVars, factVars, credits, wsRef, wasReset, nDelivered,
                   uiVars, pair, gatewayVars, docVars>>

\* ----------------------------------------------------------- client: usage
\* Mutant of the setCredits updater: the message's credits replace the value.
AddCreditsReplaces(prev, c) == <<c>>

\* The setCredits updater (179): (prev || 0) + msg.credits.
AddCredits(prev, c) == <<(IF prev = NoCredits THEN 0 ELSE prev[1]) + c>>

\* ------------------------------------------------------ client: the socket
\* Mutant of the capture rule: capture starts on session_started as well.
CaptureStartsOnAny(type) == type \in {"session_started", "CONFIG_ACCEPTED"}

\* The only case of handleWebSocketMessage that calls startAudioCapture
\* (129-137).
CaptureStartsOn(type) == type = "CONFIG_ACCEPTED"

\* startAudioCapture (199-215): nothing without the stream or the socket,
\* otherwise a new MediaRecorder is started.
StartAudioCapture == IF streamRef /\ wsRef = "open" THEN "recording" ELSE recorder

\* What handleWebSocketMessage (121-197) does to the controls: CONFIG_ACCEPTED
\* (129-137), error (182-184), ended (186-195); the relay sends no
\* CONFIG_DENIED, it reports a denial as an error.
HandleControls(msg) ==
    /\ recorder' = IF CaptureStartsOn(msg.type) THEN StartAudioCapture ELSE recorder
    /\ CASE msg.type = "CONFIG_ACCEPTED" ->
              /\ status' = "connected"
              /\ isStreaming' = TRUE
              /\ UNCHANGED <<isEnding, error, wsState>>
         [] msg.type = "error" ->
              /\ error' = (IF msg.a = "" THEN "Stream error occurred" ELSE msg.a)
              /\ UNCHANGED <<status, isStreaming, isEnding, wsState>>
         [] msg.type = "ended" ->
              /\ isStreaming' = FALSE
              /\ isEnding' = FALSE
              /\ status' = "disconnected"
              /\ wsState' = (IF wsRef = "open" THEN "closing" ELSE wsState)
              /\ UNCHANGED error
         [] OTHER -> UNCHANGED <<status, isStreaming, isEnding, error, wsState>>

\* ws.onmessage (90-97) for the next message the relay sent, with
\* handleWebSocketMessage (121-197): the transcript, facts and usage cases
\* change the lists and the counter, the ended case closes the socket and
\* forgets it. A socket that is not open dispatches no message.
Deliver ==
    /\ wsRef = "open"
    /\ wsState = "open"
    /\ nDelivered < Len(toClient)
    /\ nDelivered' = nDelivered + 1
    /\ LET msg == toClient[nDelivered + 1]
       IN /\ HandleControls(msg)
          /\ CASE msg.type = "transcript" ->
                  /\ HandleTranscript(msg.data[1])
                  /\ UNCHANGED <<factVars, credits, wsRef>>
            [] msg.type = "facts" ->
                  /\ HandleFacts(msg.data)
                  /\ UNCHANGED <<transcriptVars, credits, wsRef>>
            [] msg.type = "usage" ->
                  /\ credits' = AddCredits(credits, msg.data[1])
                  /\ UNCHANGED <<factVars, transcriptVars, wsRef>>
            [] msg.type = "ended" ->
                  /\ wsRef' = "null"
                  /\ UNCHANGED <<factVars, transcriptVars, credits>>
            [] OTHER -> UNCHANGED <<factVars, transcriptVars, credits, wsRef>>
    /\ UNCHANGED <<relayVars, wasReset, streamRef, toRelay, closeSeen, pair,
                   gatewayVars, docVars>>

\* reset (262-293): the recorder is stopped, the stream released, the socket
\* closed and forgotten, the lists, the counter and the controls cleared.
Reset ==
    /\ wsRef' = "null"
    /\ wsState' = (IF wsRef = "open" /\ wsState = "open" THEN "closing" ELSE wsState)
    /\ recorder' = (IF recorder = "recording" THEN "stopping" ELSE recorder)
    /\ streamRef' = FALSE
    /\ segments' = <<>>
    /\ interimText' = ""
    /\ facts' = <<>>
    /\ error' = ""
    /\ status' = "disconnected"
    /\ credits' = NoCredits
    /\ isStreaming' = FALSE
    /\ isEnding' = FALSE
    /\ wasReset' = TRUE
    /\ lastUpdate' = [x \in FactIds |-> "none"]
    /\ removed' = {}
    /\ lastApplied' = "none"
    /\ interimBefore' = ""
    /\ UNCHANGED <<relayVars, nDelivered, toRelay, closeSeen, pair, gatewayVars, docVars>>

\* ---------------------------------------------- client: controls and socket
\* The client variables but toRelay.
clientButToRelay == <<factVars, transcriptVars, credits, wsRef, wasReset, nDelivered,
                      status, isStreaming, isEnding, error, wsState, streamRef,
                      recorder, closeSeen>>

\* wsRef.current?.readyState === WebSocket.OPEN (209, 250).
SocketOpen == wsRef = "open" /\ wsState = "open"

\* stopStreaming (234-260) but for what it sends: the recorder is stopped
\* (its last chunk is still delivered to ondataavailable), the stream is
\* released; with an open socket isEnding is set, otherwise isStreaming is
\* cleared and the status set.
StopStreaming ==
    /\ recorder' = (IF recorder = "recording" THEN "stopping" ELSE recorder)
    /\ streamRef' = FALSE
    /\ IF SocketOpen
       THEN /\ isEnding' = TRUE
            /\ UNCHANGED <<isStreaming, status>>
       ELSE /\ isStreaming' = FALSE
            /\ status' = "disconnected"
            /\ UNCHANGED isEnding

\* The record button (349-352) is enabled.
RecordEnabled == ~(status = "connecting" \/ isEnding)

\* The Reset button (488-492) is enabled.
ResetEnabled == ~isStreaming

\* The record button pressed while streaming: stopStreaming, which sends
\* {type: 'end'} on an open socket (250-252).
PressStop ==
    /\ isStreaming
    /\ RecordEnabled
    /\ StopStreaming
    /\ toRelay' = IF SocketOpen THEN Append(toRelay, "end") ELSE toRelay
    /\ UNCHANGED <<relayVars, factVars, transcriptVars, credits, wsRef, wasReset,
                   nDelivered, error, wsState, closeSeen, pair, gatewayVars, docVars>>

\* The Reset button pressed.
PressReset ==
    /\ ResetEnabled
    /\ Reset

\* Frames the session can still carry; one is kept for the end request while
\* the recording has not been stopped.
Room == MaxClientMsgs - nClientMsgs - Len(toRelay) - (IF streamRef THEN 1 ELSE 0)

\* mediaRecorder.ondataavailable (208-213): a chunk of the recorder, the last
\* one after stop(); it is sent when it is not empty and the socket is open.
RecorderData(size) ==
    /\ recorder \in {"recording", "stopping"}
    /\ Room > 0
    /\ recorder' = (IF recorder = "stopping" THEN "none" ELSE recorder)
    /\ toRelay' = IF size > 0 /\ SocketOpen THEN Append(toRelay, "audio") ELSE toRelay
    /\ UNCHANGED <<relayVars, factVars, transcriptVars, credits, wsRef, wasReset,
                   nDelivered, status, isStreaming, isEnding, error, wsState, streamRef,
                   closeSeen, pair, gatewayVars, docVars>>

\* The oldest frame in flight reaches the relay.
RelayReceives(ok, fok) ==
    /\ toRelay # <<>>
    /\ FrameBody(Head(toRelay), ok, fok)
    /\ toRelay' = Tail(toRelay)
    /\ UNCHANGED <<clientButToRelay, pair, gatewayVars, docVars>>

\* isStreaming as ws.onclose (106-112) reads it: the value of the render in
\* which startStreaming was created, and the record button runs
\* startStreaming only while isStreaming is false (350).
CapturedIsStreaming == FALSE

\* The browser's socket closes: after the relay closed the connection and
\* everything it sent was handled, after the component closed it, or, with
\* an error event first, at any time. ws.onerror (99-104) sets the error and
\* runs stopStreaming on the closed socket; ws.onclose (106-112) acts only
\* if the captured isStreaming is true.
ConnectionCloses(withError) ==
    /\ wsState # "closed"
    /\ \/ withError
       \/ wsState = "closing"
       \/ clientReadyState # OPEN /\ nDelivered = Len(toClient)
    /\ wsState' = "closed"
    /\ closeSeen' = TRUE
    /\ IF withError
       THEN /\ error' = "Connection error. Make sure the backend is running."
            /\ recorder' = (IF recorder = "recording" THEN "stopping" ELSE recorder)
            /\ streamRef' = FALSE
            /\ isStreaming' = FALSE
            /\ status' = "disconnected"
            /\ UNCHANGED isEnding
       ELSE IF CapturedIsStreaming
       THEN /\ recorder' = (IF recorder = "recording" THEN "stopping" ELSE recorder)
            /\ streamRef' = FALSE
            /\ isStreaming' = FALSE
            /\ status' = "disconnected"
            /\ UNCHANGED <<error, isEnding>>
       ELSE UNCHANGED <<error, recorder, streamRef, isStreaming, status, isEnding>>
    /\ UNCHANGED <<relayVars, factVars, transcriptVars, credits, wsRef, wasReset,
                   nDelivered, toRelay, pair, gatewayVars, docVars>>

\* The relay learns that the browser's socket is gone, after the frames
\* sent before.
RelaySeesClose ==
    /\ wsState # "open"
    /\ toRelay = <<>>
    /\ ClientDisconnect

\* ------------------------------------------------- relay: two sessions
\* Two invocations of handleAmbientConnection running side by side. Each
\* invocation declares its own streamSocket, interactionId, isConfigAccepted,
\* isStreamClosed, audioQueue, audioChunkCount and isClientConnected (11-17)
\* and its handlers close over them; the module declares no variable of its
\* own. A session is a record of these variables with its browser socket
\* (readyState, and sent: the types of the messages passed to its send), its
\* provider connection (providerOpen, and calls: the calls on its handle) and
\* n, the events it has seen. The handle has sendEnd and sendFlush and its
\* calls return.
Sessions == {1, 2}

SessionEvents ==
    {"createOk", "createFails", "connectOk", "connectFails",
     "audio", "flush", "end", "disconnect", "clientError",
     "CONFIG_ACCEPTED", "ENDED", "providerError", "providerClose"}

SessionInit ==
    [phase |-> "creating", interactionId |-> "null",
     isConfigAccepted |-> FALSE, isStreamClosed |-> FALSE,
     audioQueue |-> <<>>, audioChunkCount |-> 0, isClientConnected |-> TRUE,
     readyState |-> OPEN, sent |-> <<>>, providerOpen |-> FALSE, calls |-> <<>>, n |-> 0]

PairInit == pair = [s \in Sessions |-> SessionInit]

\* The interactionId the provider gives the session s.
IdOf(s) == IF s = 1 THEN "id1" ELSE "id2"

\* sendToClient (20-31) of the session r.
SessionSend(r, type) ==
    IF r.isClientConnected /\ r.readyState = OPEN
    THEN [r EXCEPT !.sent = Append(@, type)]
    ELSE r

\* closeStream (34-53) of the session r.
SessionCloseStream(r) ==
    IF r.isStreamClosed \/ r.phase # "attached"
    THEN r
    ELSE [r EXCEPT !.calls = Append(@, Call("sendEnd", 0)), !.isStreamClosed = TRUE]

\* The catch blocks (74-79, 135-140) of the session r.
SessionFails(r) ==
    [SessionSend(r, "error") EXCEPT
        !.phase = "failed",
        !.readyState = IF r.readyState = OPEN THEN CLOSING ELSE r.readyState]

\* clientWs.on('message') (143-176) of the session r for one frame.
SessionFrame(r, kind) ==
    IF r.phase # "attached" \/ r.isStreamClosed THEN r
    ELSE CASE kind = "audio" ->
                IF ~r.isConfigAccepted
                THEN [r EXCEPT !.audioQueue = Append(@, r.n + 1)]
                ELSE [r EXCEPT !.calls = Append(@, Call("sendAudio", r.n + 1)),
                               !.audioChunkCount = @ + 1]
           [] kind = "flush" -> [r EXCEPT !.calls = Append(@, Call("sendFlush", 0))]
           [] OTHER -> SessionCloseStream(r)

\* The event ev can happen to the session r.
SessionEnabled(r, ev) ==
    CASE ev \in {"createOk", "createFails"} -> r.phase = "creating"
      [] ev \in {"connectOk", "connectFails"} -> r.phase = "connecting"
      [] ev \in {"audio", "flush", "end", "disconnect"} -> r.readyState # CLOSED
      [] ev = "clientError" ->
            r.phase = "attached" /\ r.readyState # CLOSED /\ r.isClientConnected
      [] OTHER -> r.phase = "attached" /\ r.providerOpen

\* The session r of number s after it handled the event ev.
SessionAfter(r, s, ev) ==
    CASE ev = "createOk" ->
            SessionSend([r EXCEPT !.interactionId = IdOf(s), !.phase = "connecting"],
                        "session_started")
      [] ev \in {"createFails", "connectFails"} -> SessionFails(r)
      [] ev = "connectOk" -> [r EXCEPT !.phase = "attached", !.providerOpen = TRUE]
      [] ev \in {"audio", "flush", "end"} -> SessionFrame(r, ev)
      [] ev = "disconnect" ->
            IF r.phase = "attached"
            THEN SessionCloseStream([r EXCEPT !.readyState = CLOSED,
                                              !.isClientConnected = FALSE])
            ELSE [r EXCEPT !.readyState = CLOSED]
      [] ev = "clientError" -> [r EXCEPT !.isClientConnected = FALSE]
      [] ev = "CONFIG_ACCEPTED" ->
            [SessionSend(r, "CONFIG_ACCEPTED") EXCEPT
                !.isConfigAccepted = TRUE,
                !.calls = @ \o FlushCalls(r.audioQueue),
                !.audioQueue = <<>>]
      [] ev = "ENDED" -> SessionSend(r, "ended")
      [] ev = "providerError" -> SessionSend(r, "error")
      [] OTHER -> [r EXCEPT !.providerOpen = FALSE, !.isConfigAccepted = FALSE,
                            !.isStreamClosed = TRUE]

\* Mutant of the variables' scope: audioQueue is one variable of the module,
\* shared by the invocations.
PairSetSharedQueue(p, s, r) ==
    [t \in Sessions |-> IF t = s THEN r ELSE [p[t] EXCEPT !.audioQueue = r.audioQueue]]

\* The assignments of the invocation s change the variables of s.
PairSet(p, s, r) == [p EXCEPT ![s] = r]

\* The session s handles the event ev.
SessionEvent(s, ev) ==
    /\ pair[s].n < MaxSessionEvents
    /\ SessionEnabled(pair[s], ev)
    /\ pair' = PairSet(pair, s, [SessionAfter(pair[s], s, ev) EXCEPT !.n = @ + 1])
    /\ UNCHANGED <<relayVars, clientVars, gatewayVars, docVars>>

\* ------------------------------------------------------------ REST gateway
\* The fields of req.body as the document endpoint tests them (server.js
\* 88-102), req.body being the object express.json() parsed:
\*   context         absent, null, a string, [] or a non-empty array
\*   templateKey     absent, "" or a key
\*   outputLanguage  absent, "" or a language
\*   name            absent or a name
ContextValues == {"absent", "null", "text", "emptyArray", "array"}

FieldValues == {"absent", "", "value"}

NameValues == {"absent", "note"}

Bodies ==
    [context : ContextValues, templateKey : FieldValues, outputLanguage : FieldValues,
     name : NameValues]

\* The body of a request that has none of the fields (a GET).
NoBody == [context |-> "absent", templateKey |-> "absent", outputLanguage |-> "absent",
           name |-> "absent"]

\* How a call of the provider's SDK ends: it resolves, or it rejects with an
\* error that has the provider's HTTP status and a message.
ProviderOutcomes ==
    {[ok |-> TRUE, status |-> 200, detail |-> ""]}
    \cup [ok : {FALSE}, status : {404, 500}, detail : {"not found", "quota exceeded"}]

NoOutcome == [ok |-> TRUE, status |-> 0, detail |-> ""]

\* JavaScript truthiness of a field, and Array.isArray.
Truthy(v) == v \notin {"absent", "null", ""}

IsArray(v) == v \in {"emptyArray", "array"}

\* One request as handled: what was asked, the calls made on the provider's
\* SDK, how the call ended, and the response (status, error, details).
Exchange(endpoint, body, calls, provider, code, err, details) ==
    [endpoint |-> endpoint, body |-> body, calls |-> calls, provider |-> provider,
     status |-> code, error |-> err, details |-> details]

GatewayInit ==
    /\ httpLast = Exchange("none", NoBody, <<>>, NoOutcome, 0, "", "")
    /\ nRequests = 0

\* The argument of documents.create (104-109).
CreateCall(body) ==
    [op |-> "documents.create",
     templateKey |-> body.templateKey, outputLanguage |-> body.outputLanguage,
     name |-> IF Truthy(body.name) THEN body.name ELSE "Generated Document"]

\* Mutant of the validation: the length of context is not tested.
CreateDocumentAnyArray(body, outcome) ==
    IF ~Truthy(body.context) \/ ~IsArray(body.context)
    THEN Exchange("documents", body, <<>>, NoOutcome, 400,
                  "Context is required and must be a non-empty array", "")
    ELSE IF ~Truthy(body.templateKey)
    THEN Exchange("documents", body, <<>>, NoOutcome, 400, "templateKey is required", "")
    ELSE IF ~Truthy(body.outputLanguage)
    THEN Exchange("documents", body, <<>>, NoOutcome, 400, "outputLanguage is required", "")
    ELSE IF outcome.ok
    THEN Exchange("documents", body, <<CreateCall(body)>>, outcome, 200, "", "")
    ELSE Exchange("documents", body, <<CreateCall(body)>>, outcome, 500,
                  "Failed to create document", outcome.detail)

\* POST /api/interactions/:id/documents (85-117).
CreateDocument(body, outcome) ==
    IF ~Truthy(body.context) \/ ~IsArray(body.context) \/ body.context = "emptyArray"
    THEN Exchange("documents", body, <<>>, NoOutcome, 400,
                  "Context is required and must be a non-empty array", "")
    ELSE IF ~Truthy(body.templateKey)
    THEN Exchange("documents", body, <<>>, NoOutcome, 400, "templateKey is required", "")
    ELSE IF ~Truthy(body.outputLanguage)
    THEN Exchange("documents", body, <<>>, NoOutcome, 400, "outputLanguage is required", "")
    ELSE IF outcome.ok
    THEN Exchange("documents", body, <<CreateCall(body)>>, outcome, 200, "", "")
    ELSE Exchange("documents", body, <<CreateCall(body)>>, outcome, 500,
                  "Failed to create document", outcome.detail)

\* GET /api/templates (42-52).
ListTemplates(outcome) ==
    IF outcome.ok
    THEN Exchange("templates", NoBody, <<[op |-> "templates.list"]>>, outcome, 200, "", "")
    ELSE Exchange("templates", NoBody, <<[op |-> "templates.list"]>>, outcome, 500,
                  "Failed to fetch templates", outcome.detail)

PostDocument(body, outcome) ==
    /\ nRequests < MaxRequests
    /\ nRequests' = nRequests + 1
    /\ httpLast' = CreateDocument(body, outcome)
    /\ UNCHANGED <<relayVars, clientVars, pair, docVars>>

GetTemplates(outcome) ==
    /\ nRequests < MaxRequests
    /\ nRequests' = nRequests + 1
    /\ httpLast' = ListTemplates(outcome)
    /\ UNCHANGED <<relayVars, clientVars, pair, docVars>>


\* ------------------------------------------------ claims: fact reconciliation
Ids(list) == [i \in 1..Len(list) |-> list[i].id]

Entries(list) == {list[i] : i \in 1..Len(list)}

Visible(list, x) == \E i \in 1..Len(list) : list[i].id = x

\* The same facts: the same entries, each as many times (once).
SameFacts(l1, l2) == Entries(l1) = Entries(l2) /\ Len(l1) = Len(l2)

Pos(list, x) == CHOOSE i \in 1..Len(list) : list[i].id = x

DiscardedIn(batch, x) == \E i \in 1..Len(batch) : batch[i].id = x /\ batch[i].isDiscarded

\* C3. Fact reconciliation is idempotent: whatever the visible list, merging
\* a batch a second time leaves the same facts (same ids, same attributes) as
\* merging it once.
C3_MergeIdempotent ==
    \A B \in Batches :
        LET once == Merge(facts, B)
        IN SameFacts(Merge(once, B), once)

\* C3 witness: two facts are visible and some batch that mixes a discarded
\* and a non-discarded update of one id changes the list when merged.
C3_Witness ==
    /\ Len(facts) = 2
    /\ \E B \in Batches :
          /\ Len(B) = MaxBatchLen
          /\ B[1].id = B[2].id /\ B[1].isDiscarded /\ ~B[2].isDiscarded
          /\ ~SameFacts(Merge(facts, B), facts)

\* C4. Fact reconciliation is associative over batches: merging B1 and then
\* B2 gives the same list, entry by entry, as merging B1 \o B2 once, for
\* every way of cutting a batch in two.
C4_MergeAssociative ==
    \A B \in Batches :
        LET whole == Merge(facts, B)
        IN \A k \in 0..Len(B) :
              Merge(Merge(facts, SubSeq(B, 1, k)), SubSeq(B, k + 1, Len(B))) = whole

\* C4 witness: a visible fact is discarded by the first part of a batch and
\* set again by the second, next to another visible fact.
C4_Witness ==
    /\ Len(facts) = 2
    /\ \E B \in Batches :
          /\ Len(B) = 2 /\ B[1].id = facts[1].id /\ B[2].id = facts[1].id
          /\ B[1].isDiscarded /\ ~B[2].isDiscarded
          /\ Len(Merge(facts, SubSeq(B, 1, 1))) = 1
          /\ Ids(Merge(facts, B)) = <<facts[2].id, facts[1].id>>

\* C5. A discard removes: an id that was discarded while visible has no
\* entry as long as the discard is its last update, and once a later
\* non-discarded update arrived it has one entry carrying exactly that
\* update's attributes.
C5_DiscardRemoves ==
    \A x \in removed :
        /\ lastUpdate[x] = "discard" => ~Visible(facts, x)
        /\ lastUpdate[x] \in Texts =>
              /\ Visible(facts, x)
              /\ \A i \in 1..Len(facts) :
                    facts[i].id = x =>
                        facts[i] = [id |-> x, text |-> lastUpdate[x], isDiscarded |-> FALSE]

\* C5 witness: an id discarded while visible is visible again, and another
\* such id is still absent.
C5_Witness ==
    \E x, y \in removed :
        /\ lastUpdate[x] \in Texts /\ Visible(facts, x)
        /\ lastUpdate[y] = "discard" /\ ~Visible(facts, y)

\* C6. The visible list holds at most one entry per id and no entry whose
\* isDiscarded flag is true.
C6_OnePerIdNoDiscarded ==
    /\ \A i, j \in 1..Len(facts) : facts[i].id = facts[j].id => i = j
    /\ \A i \in 1..Len(facts) : ~facts[i].isDiscarded

\* C6 witness: after a discard of a visible id and updates of both ids, both
\* are visible.
C6_Witness == Len(facts) = 2 /\ removed # {}

Sections == [key : {"subjective", "plan"}, sort : {0, 1}]

SectionLists == UNION {[1..n -> Sections] : n \in 0..MaxSections}

\* The documents the gateway can return.
Documents == [id : {"d1"}, sections : SectionLists]

\* document === null; a document doc is held as <<doc>>.
NoDocument == <<>>

\* The comparator's key (244): a.sort || 0.
SortKey(section) == section.sort

\* One step of the stable sort: x goes behind the entries that do not sort
\* after it.
InsertSection(sorted, x) ==
    LET k == Cardinality({i \in 1..Len(sorted) : SortKey(sorted[i]) <= SortKey(x)})
    IN SubSeq(sorted, 1, k) \o <<x>> \o SubSeq(sorted, k + 1, Len(sorted))

RECURSIVE SortSections(_)
\* Array.prototype.sort with the comparator of line 244: ascending by
\* SortKey, entries of equal key in their order.
SortSections(secs) ==
    IF secs = <<>> THEN <<>>
    ELSE InsertSection(SortSections(SubSeq(secs, 1, Len(secs) - 1)), secs[Len(secs)])

\* The document state after the component has rendered it (198, 241-267):
\* the formatted view calls sort on document.sections, which orders that
\* array itself; the JSON view only reads.
Rendered(doc, mode) ==
    IF doc = NoDocument \/ mode # "formatted" THEN doc
    ELSE <<[doc[1] EXCEPT !.sections = SortSections(@)]>>

\* The responses of POST /api/interactions/:id/documents as fetch sees them.
Responses == {[ok |-> TRUE, doc |-> d] : d \in Documents}
                 \cup {[ok |-> FALSE, doc |-> [id |-> "d1", sections |-> <<>>]]}

\* The panel before any document was generated (47-51).
DocumentInit ==
    /\ document = NoDocument
    /\ received = NoDocument
    /\ viewMode = "formatted"
    /\ documentError = ""

\* generateDocument (53-106) with the render that follows it. The props
\* interactionId and facts are given by hasInteraction and nFacts.
GenerateDocument(hasInteraction, nFacts, response) ==
    /\ IF ~hasInteraction
       THEN /\ documentError' = "No active session. Please start recording first."
            /\ UNCHANGED <<document, received, viewMode>>
       ELSE IF nFacts = 0
       THEN /\ documentError' = "No facts available. Please record some audio first."
            /\ UNCHANGED <<document, received, viewMode>>
       ELSE IF response.ok
       THEN /\ documentError' = ""
            /\ received' = <<response.doc>>
            /\ viewMode' = "formatted"
            /\ document' = Rendered(<<response.doc>>, "formatted")
       ELSE /\ documentError' = "Failed to generate document"
            /\ document' = NoDocument
            /\ received' = NoDocument
            /\ UNCHANGED viewMode
    /\ UNCHANGED <<relayVars, clientVars, pair, gatewayVars>>

\* The view toggle (212-225), shown while a document is held, with the
\* render that follows it.
SetViewMode(mode) ==
    /\ document # NoDocument
    /\ viewMode' = mode
    /\ document' = Rendered(document, mode)
    /\ UNCHANGED <<received, documentError>>
    /\ UNCHANGED <<relayVars, clientVars, pair, gatewayVars>>

\* The parent renders the panel again (new props).
Render ==
    /\ document # NoDocument
    /\ document' = Rendered(document, viewMode)
    /\ UNCHANGED <<received, viewMode, documentError>>
    /\ UNCHANGED <<relayVars, clientVars, pair, gatewayVars>>

\* ------------------------------------------------------------------- Init
Init == RelayInit /\ ClientInit /\ PairInit /\ GatewayInit /\ DocumentInit

FactsNext == \E batch \in Batches : ReceiveFacts(batch)

FactsSpec == Init /\ [][FactsNext]_vars

\* ------------------------------------------------------------ relay: Spec
\* The provider messages of the session specification: the acceptance, one
\* denial, one relayed result (a usage message of 1 credit) and the
\* termination.
CoreMessages ==
    {m \in ProviderMessages :
        \/ m.type \in {"CONFIG_ACCEPTED", "ENDED"}
        \/ m.type = "usage" /\ m.data = <<1>>
        \/ m.type = "CONFIG_DENIED" /\ m.reason = "bad-language"}

Next ==
    \/ CreateOk
    \/ CreateFails
    \/ \E shape \in HandleShapes : ConnectOk(shape)
    \/ ConnectFails
    \/ \E kind \in ClientKinds, ok \in BOOLEAN, fok \in BOOLEAN : ClientMessage(kind, ok, fok)
    \/ ClientDisconnect
    \/ ClientError
    \/ \E msg \in CoreMessages, oks \in [1..Len(audioQueue) -> BOOLEAN] :
          ProviderMessage(msg, oks)
    \/ ProviderError
    \/ ProviderClose

Spec == Init /\ [][Next]_vars

\* The session with every denial the provider can send (each kind, with and
\* without a reason) and the browser sending audio only.
DenialMessages == {m \in ProviderMessages : m.type \in DenialKinds \cup {"CONFIG_ACCEPTED"}}

DenialNext ==
    \/ CreateOk
    \/ CreateFails
    \/ \E shape \in HandleShapes : ConnectOk(shape)
    \/ ConnectFails
    \/ \E ok \in BOOLEAN : ClientMessage("audio", ok, TRUE)
    \/ ClientDisconnect
    \/ ClientError
    \/ \E msg \in DenialMessages, oks \in [1..Len(audioQueue) -> BOOLEAN] :
          ProviderMessage(msg, oks)
    \/ ProviderError
    \/ ProviderClose

DenialSpec == Init /\ [][DenialNext]_vars

\* The session with the provider's results: transcript messages whose data
\* is no array or an array of segments with different ids (each with a start
\* time and the same transcript), facts messages
\* with no array or an array of at most one update (with one text), and
\* ENDED; the browser sends end messages only.
ResultMessages ==
    {m \in ProviderMessages :
        \/ m.type = "ENDED"
        \/ /\ m.type = "transcript"
           /\ \A i, j \in 1..Len(m.data) : m.data[i].id = m.data[j].id => i = j
           /\ \A i \in 1..Len(m.data) : m.data[i].start = 5 /\ m.data[i].text = "bar"
        \/ /\ m.type = "facts"
           /\ Len(m.data) <= 1
           /\ \A i \in 1..Len(m.data) : m.data[i].text = "a"}

ResultsNext ==
    \/ CreateOk
    \/ CreateFails
    \/ \E shape \in HandleShapes : ConnectOk(shape)
    \/ ConnectFails
    \/ ClientMessage("end", TRUE, TRUE)
    \/ ClientDisconnect
    \/ ClientError
    \/ \E msg \in ResultMessages, oks \in [1..Len(audioQueue) -> BOOLEAN] :
          ProviderMessage(msg, oks)
    \/ ProviderError
    \/ ProviderClose

ResultsSpec == Init /\ [][ResultsNext]_vars

\* ------------------------------------------------ relay and client: a session
\* One recording session from start to end, relay and browser together: the
\* session is created and connected; the browser sends two audio frames to
\* the attached relay; the provider accepts the configuration, then emits a
\* transcript message of one final segment, a facts message of two facts and
\* a facts message that discards one of them, while the browser sends a third
\* frame; the browser sends end; the provider emits ENDED; the browser, which
\* handles the relay's messages as they come, closes its socket on ended.
AllSent == [i \in 1..Len(audioQueue) |-> TRUE]

FinalSegments == {ProviderMsg("transcript", "", TRUE, <<g>>) : g \in {h \in Segments : h.final}}

TwoFacts ==
    {ProviderMsg("facts", "", TRUE, b) :
        b \in {c \in FactsArrays :
                  /\ Len(c) = 2 /\ c[1].id # c[2].id
                  /\ ~c[1].isDiscarded /\ ~c[2].isDiscarded}}

OneDiscarded ==
    {ProviderMsg("facts", "", TRUE, b) :
        b \in {c \in FactsArrays :
                  \E x \in FactIds :
                      /\ \E i \in 1..Len(c) : c[i].id = x
                      /\ \A i \in 1..Len(c) : c[i].isDiscarded <=> c[i].id = x}}

EarlyFrame ==
    /\ phase = "attached" /\ nClientMsgs < 2 /\ nProviderEvents = 0
    /\ Frame("audio", TRUE, TRUE)

Accepted ==
    /\ nClientMsgs = 2 /\ nProviderEvents = 0
    /\ OnProviderMessage(ProviderMsg("CONFIG_ACCEPTED", "", FALSE, <<>>), AllSent)

LateFrame ==
    /\ nClientMsgs = 2 /\ nProviderEvents \in 1..4
    /\ Frame("audio", TRUE, TRUE)

TranscriptEvent ==
    /\ nProviderEvents = 1
    /\ \E msg \in FinalSegments : OnProviderMessage(msg, AllSent)

FirstFacts ==
    /\ nProviderEvents = 2
    /\ \E msg \in TwoFacts : OnProviderMessage(msg, AllSent)

SecondFacts ==
    /\ nProviderEvents = 3
    /\ \E msg \in OneDiscarded : OnProviderMessage(msg, AllSent)

EndRequest ==
    /\ nClientMsgs = 3 /\ nProviderEvents = 4
    /\ Frame("end", TRUE, TRUE)

EndedEvent ==
    /\ endSent /\ nProviderEvents = 4
    /\ OnProviderMessage(ProviderMsg("ENDED", "", FALSE, <<>>), AllSent)

\* handleWebSocketMessage case 'ended' (186-195) closed the browser's socket;
\* the relay sees the close.
BrowserCloses ==
    /\ nDelivered > 0 /\ toClient[nDelivered].type = "ended"
    /\ ClientDisconnect

ScenarioNext ==
    \/ CreateOk
    \/ \E shape \in HandleShapes : ConnectOk(shape)
    \/ EarlyFrame
    \/ Accepted
    \/ LateFrame
    \/ TranscriptEvent
    \/ FirstFacts
    \/ SecondFacts
    \/ EndRequest
    \/ EndedEvent
    \/ Deliver
    \/ BrowserCloses

ScenarioSpec == Init /\ [][ScenarioNext]_vars

\* ------------------------------------------------------- the other specs
TranscriptNext == \E data \in TranscriptData : ReceiveTranscript(data)

TranscriptSpec == Init /\ [][TranscriptNext]_vars

\* Revisions of one segment: transcript messages of one segment with the
\* provider id s1, with or without a start time, final or not; the browser
\* handles what it is sent.
Revisions ==
    {ProviderMsg("transcript", "", TRUE, <<g>>) : g \in {h \in Segments : h.id = "s1"}}

RevisionNext ==
    \/ CreateOk
    \/ \E shape \in HandleShapes : ConnectOk(shape)
    \/ \E msg \in Revisions : ProviderMessage(msg, AllSent)
    \/ Deliver

RevisionSpec == Init /\ [][RevisionNext]_vars

\* Usage: the provider accepts, reports usage and ends; the browser handles
\* what it is sent, may be reset and may go away.
UsageMessages == {m \in ProviderMessages : m.type \in {"CONFIG_ACCEPTED", "usage", "ENDED"}}

UsageNext ==
    \/ CreateOk
    \/ \E shape \in HandleShapes : ConnectOk(shape)
    \/ \E msg \in UsageMessages : ProviderMessage(msg, AllSent)
    \/ ClientDisconnect
    \/ Deliver
    \/ Reset

UsageSpec == Init /\ [][UsageNext]_vars

PairNext == \E s \in Sessions, ev \in SessionEvents : SessionEvent(s, ev)

PairSpec == Init /\ [][PairNext]_vars

GatewayNext ==
    \/ \E body \in Bodies, outcome \in ProviderOutcomes : PostDocument(body, outcome)
    \/ \E outcome \in ProviderOutcomes : GetTemplates(outcome)

GatewaySpec == Init /\ [][GatewayNext]_vars

\* The document panel: documents are generated, the view is switched, the
\* panel is rendered again.
DocumentNext ==
    \/ \E hasInteraction \in BOOLEAN, nFacts \in {0, 1}, response \in Responses :
          GenerateDocument(hasInteraction, nFacts, response)
    \/ \E mode \in {"formatted", "json"} : SetViewMode(mode)
    \/ Render

DocumentSpec == Init /\ [][DocumentNext]_vars

\* The reference client and the relay in one session: the provider accepts,
\* denies or ends, or closes; the browser handles what it is sent, records,
\* and its user may stop and reset; either socket may go away.
ClientMessages ==
    {m \in ProviderMessages :
        \/ m.type \in {"CONFIG_ACCEPTED", "ENDED"}
        \/ m.type = "CONFIG_DENIED" /\ m.reason = ""}

ClientNext ==
    \/ CreateOk
    \/ CreateFails
    \/ \E shape \in HandleShapes : ConnectOk(shape)
    \/ ConnectFails
    \/ \E msg \in ClientMessages : ProviderMessage(msg, AllSent)
    \/ ProviderClose
    \/ Deliver
    \/ \E size \in {0, 1} : RecorderData(size)
    \/ \E ok \in BOOLEAN, fok \in BOOLEAN : RelayReceives(ok, fok)
    \/ PressStop
    \/ PressReset
    \/ \E withError \in BOOLEAN : ConnectionCloses(withError)
    \/ RelaySeesClose

ClientSpec == Init /\ [][ClientNext]_vars

\* ------------------------------------------------------------ claims: relay
Last(seq) == seq[Len(seq)]

\* The step is the handling of one browser frame by the attached handler.
ClientMessageStep ==
    /\ phase = "attached"
    /\ \E kind \in ClientKinds, ok \in BOOLEAN, fok \in BOOLEAN : ClientMessage(kind, ok, fok)

\* The step is the handling of one provider message.
ProviderMessageStep ==
    \E msg \in ProviderMessages, oks \in [1..Len(audioQueue) -> BOOLEAN] :
        ProviderMessage(msg, oks)

\* C1. Queue-then-flush ordering: in a session whose gate is open, with no
\* sendAudio failure and no end or close, the sendAudio calls made on the
\* provider are the audio frames the message handler received, in arrival
\* order, none dropped and none twice.
C1_QueueThenFlush ==
    (phase = "attached" /\ isConfigAccepted /\ ~isStreamClosed /\ ~audioFailed)
        => AudioFrames(providerCalls) = rxAudio

\* C2. Readiness gate: a step makes a sendAudio call only if CONFIG_ACCEPTED
\* has been handled by then, and an audio frame handled while the gate is
\* shut is appended to audioQueue and nothing is called on the provider.
C2_ReadinessGate ==
    [][/\ AudioFrames(providerCalls') # AudioFrames(providerCalls) => everAccepted'
       /\ (rxAudio' # rxAudio /\ ~isConfigAccepted) =>
              /\ audioQueue' = Append(audioQueue, Last(rxAudio'))
              /\ providerCalls' = providerCalls]_vars

\* C2 witness: two frames wait in the queue of a session that was never
\* accepted, and nothing was sent.
C2_Witness ==
    /\ Len(audioQueue) = 2 /\ rxAudio = audioQueue
    /\ ~everAccepted /\ providerCalls = <<>>

\* The session is Closed: the provider emitted ENDED or its connection
\* closed (an end that was requested is confirmed by either).
SessionClosed == phase = "attached" /\ (providerEnded \/ ~providerOpen)

\* C8. Terminal idempotence: in a Closed session the handling of a browser
\* frame (audio or control) or of a provider message calls nothing on the
\* provider, sends nothing to the browser and changes no session state.
C8_TerminalIdempotence ==
    [][(SessionClosed /\ (ClientMessageStep \/ ProviderMessageStep))
         => UNCHANGED <<providerCalls, toClient, sessionVars>>]_vars

\* C9. A configuration denial is terminal: after it no audio frame is
\* forwarded to the provider, nothing more is relayed to the browser and the
\* audio gate does not open.
C9_DenialIsTerminal ==
    [][denied => /\ AudioFrames(providerCalls') = AudioFrames(providerCalls)
                 /\ toClient' = toClient
                 /\ (isConfigAccepted' => isConfigAccepted)]_vars

\* C10. On a configuration denial handled while the browser is connected,
\* the relay sends the browser one error message carrying the kind of the
\* denial and its reason (when the denial has one), and does not close the
\* browser connection.
C10_DenialReported ==
    [][\A msg \in DenialMessages :
          (msg.type \in DenialKinds /\ ProviderMessage(msg, <<>>)) =>
              /\ (isClientConnected /\ clientReadyState = OPEN) =>
                    /\ Len(toClient') = Len(toClient) + 1
                    /\ Last(toClient').type = "error"
                    /\ Last(toClient').a = msg.type
                    /\ msg.reason # "" => Last(toClient').b = msg.reason
              /\ clientCloseCalls' = clientCloseCalls
              /\ clientReadyState' = clientReadyState]_vars

\* C10 witness: the browser was told of a CONFIG_TIMEOUT with its reason and
\* of a CONFIG_MISSING without one, and its connection is open and was never
\* closed by the relay.
C10_Witness ==
    /\ \E i \in 1..Len(toClient) :
          toClient[i] = ClientMsg("error", "CONFIG_TIMEOUT", "bad-language")
    /\ \E i \in 1..Len(toClient) :
          toClient[i].type = "error" /\ toClient[i].a = "CONFIG_MISSING"
    /\ clientCloseCalls = 0
    /\ clientReadyState = OPEN

\* The browser can be sent to: sendToClient's test passes.
BrowserOpen == isClientConnected /\ clientReadyState = OPEN

\* The calls that ask the provider to end: sendEnd, or close on the handle.
EndControls(calls) == {i \in 1..Len(calls) : calls[i].op \in {"sendEnd", "close"}}

\* The step is the handling of an end control message of the browser.
EndMessageStep ==
    /\ phase = "attached"
    /\ \E ok \in BOOLEAN, fok \in BOOLEAN : ClientMessage("end", ok, fok)

\* C11. Fatal initialization failure: when interactions.create or
\* stream.connect fails, the relay calls clientWs.close() once and calls
\* nothing on the provider; a browser that is open is first sent one more
\* message, an error; after a creation failure there is no stream handle and
\* no provider connection; and from then on the session stays failed: no
\* handler is attached, so no frame, disconnect or provider event changes
\* what was sent, what was called or the session variables.
C11_FatalInitFailure ==
    [][/\ (phase # "failed" /\ phase' = "failed") =>
              /\ clientCloseCalls' = clientCloseCalls + 1
              /\ providerCalls' = providerCalls
              /\ BrowserOpen =>
                    /\ toClient' = Append(toClient, Last(toClient'))
                    /\ Last(toClient').type = "error"
                    /\ clientReadyState' = CLOSING
              /\ phase = "creating" => (streamSocket' = "null" /\ ~providerOpen')
       /\ phase = "failed" =>
              /\ phase' = "failed"
              /\ UNCHANGED <<toClient, providerCalls, clientCloseCalls, streamSocket,
                             providerOpen, sessionVars, rxAudio>>]_vars

\* C11 witness: stream.connect failed in a session whose browser was open;
\* the browser was sent session_started and one error, its socket is closing,
\* and a frame it sent afterwards found no handler.
C11_Witness ==
    /\ phase = "failed" /\ interactionId = "id1"
    /\ Len(toClient) = 2 /\ toClient[1].type = "session_started"
    /\ toClient[2].type = "error"
    /\ clientCloseCalls = 1 /\ clientReadyState = CLOSING
    /\ unheard # {} /\ providerCalls = <<>>

\* C13. Closing is idempotent: whatever end messages, disconnects and
\* provider close events a session sees, at most one end control (sendEnd,
\* or close) is called on the provider, and an end message or a disconnect
\* handled when the stream is already closed calls nothing on the provider
\* and leaves the stream closed.
C13_CloseIdempotent ==
    [][/\ Cardinality(EndControls(providerCalls')) <= 1
       /\ (isStreamClosed /\ (EndMessageStep \/ ClientDisconnect)) =>
              (providerCalls' = providerCalls /\ isStreamClosed')]_vars

\* C13 witness: the end control was called once, the provider connection
\* closed and the browser disconnected, after three frames none of which
\* was audio.
C13_Witness ==
    /\ endSent /\ providerCalls = <<Call("sendEnd", 0)>>
    /\ ~providerOpen /\ clientReadyState = CLOSED
    /\ nClientMsgs = MaxClientMsgs /\ unheard = {} /\ rxAudio = <<>>

\* C14. When the browser connection closes while the provider connection is
\* open and no end was requested yet, the relay requests the end from the
\* provider in that step: sendEnd when the handle has it, close otherwise.
C14_DisconnectEndsGracefully ==
    [][(ClientDisconnect /\ providerOpen /\ ~endSent) =>
          /\ providerCalls' =
                 Append(providerCalls,
                        IF "sendEnd" \in handleShape THEN Call("sendEnd", 0)
                                                     ELSE Call("close", 0))
          /\ endSent']_vars

\* C14 witness: the browser is gone, the provider connection is still open
\* and the last call on a handle that has sendEnd is sendEnd.
C14_Witness ==
    /\ clientReadyState = CLOSED /\ ~isClientConnected /\ providerOpen
    /\ "sendEnd" \in handleShape
    /\ Len(providerCalls) > 1 /\ Last(providerCalls) = Call("sendEnd", 0)

\* C15. When the provider connection closes while the browser connection is
\* open, the relay closes the browser connection.
C15_ProviderCloseClosesBrowser ==
    [][(ProviderClose /\ clientReadyState = OPEN) =>
          (clientCloseCalls' = clientCloseCalls + 1 /\ clientReadyState' # OPEN)]_vars

\* C16. Ending completes: in a session whose end the browser requested and
\* whose browser is still connected, the first of ENDED and the provider's
\* close sends the browser the ended message.
C16_EndingCompletes ==
    [][(/\ endSent /\ BrowserOpen /\ providerOpen /\ ~providerEnded
        /\ (ProviderClose \/ providerEnded')) =>
          toClient' = Append(toClient, ClientMsg("ended", "", ""))]_vars

\* The frames of a sequence of frames.
Frames(seq) == {seq[i] : i \in 1..Len(seq)}

\* C18. Audio frames the browser sends while interactions.create or
\* stream.connect is in flight are held in audioQueue until they are
\* forwarded: each of them is in the queue or among the sendAudio calls
\* (the browser sends audio frames only).
C18_InFlightFramesHeld ==
    \A n \in unheard : n \in Frames(audioQueue) \cup Frames(AudioFrames(providerCalls))

\* C19. A browser that disconnected while interactions.create or
\* stream.connect was in flight: once the provider connection exists its end
\* was requested, so no provider connection is open, with no end requested,
\* for a browser that is gone.
C19_EarlyDisconnectEnds ==
    (phase = "attached" /\ clientReadyState = CLOSED /\ providerOpen) => endSent

\* The session is Ending: the browser sent end (the end control was requested
\* while the browser stayed connected) and the provider has neither sent
\* ENDED nor closed.
Ending == endSent /\ BrowserOpen /\ providerOpen /\ ~providerEnded

\* C17. While a session is Ending, every transcript and facts event the
\* provider emits is still relayed: one transcript message per segment of its
\* array and one facts message for a facts array are appended to what the
\* browser was sent.
C17_RelayedWhileEnding ==
    [][\A msg \in ResultMessages :
          (Ending /\ msg.isArray /\ ProviderMessage(msg, <<>>)) =>
              /\ Len(toClient') =
                     Len(toClient) + (IF msg.type = "facts" THEN 1 ELSE Len(msg.data))
              /\ \A i \in Len(toClient) + 1..Len(toClient') : toClient'[i].type = msg.type
              /\ SubSeq(toClient', 1, Len(toClient)) = toClient]_vars

\* C17 witness: after the end control was requested the browser, still
\* connected, was sent a transcript message and a facts message.
C17_Witness ==
    /\ endSent /\ BrowserOpen /\ nProviderEvents = 2
    /\ Len(toClient) = 3
    /\ toClient[2].type = "transcript" /\ toClient[3].type = "facts"
    /\ providerCalls = <<Call("sendEnd", 0)>>

\* What the browser is to be sent for one provider message of the results
\* session: per segment of a transcript array, in array order, a transcript
\* message with the segment's composite id (its id and its start time), its
\* transcript, final flag and start time; for a facts array
\* one facts message with its updates in array order; for ENDED, ended.
RelayImage(msg) ==
    IF msg.type = "transcript" /\ msg.isArray
    THEN [i \in 1..Len(msg.data) |->
            [type |-> "transcript", a |-> "", b |-> "",
             data |-> <<[id |-> <<msg.data[i].id, msg.data[i].start>>,
                         text |-> msg.data[i].text,
                         isFinal |-> msg.data[i].final,
                         start |-> msg.data[i].start]>>]]
    ELSE IF msg.type = "facts" /\ msg.isArray
    THEN <<[type |-> "facts", a |-> "", b |-> "", data |-> msg.data]>>
    ELSE IF msg.type = "ENDED"
    THEN <<[type |-> "ended", a |-> "", b |-> "", data |-> <<>>]>>
    ELSE <<>>

\* C20. Provider events are relayed in order: each provider message handled
\* while the browser can be sent to appends its own messages (the segments of
\* a transcript array in array order) after everything sent before, and no
\* step changes or reorders what was already sent.
C20_RelayedInOrder ==
    [][/\ \A msg \in ResultMessages :
             (BrowserOpen /\ ProviderMessage(msg, <<>>)) =>
                 toClient' = toClient \o RelayImage(msg)
       /\ Len(toClient') >= Len(toClient)
       /\ SubSeq(toClient', 1, Len(toClient)) = toClient]_vars

\* C20 witness: a transcript message of two different segments and then a
\* facts message were handled; the browser was sent session_started, the two
\* segments in array order and the facts.
C20_Witness ==
    /\ Len(toClient) = 4
    /\ toClient[2].type = "transcript" /\ toClient[3].type = "transcript"
    /\ toClient[2].data # toClient[3].data
    /\ toClient[4].type = "facts" /\ Len(toClient[4].data) = 1

\* The types of a sequence of client messages.
Types(seq) == [i \in 1..Len(seq) |-> seq[i].type]

IsPrefix(p, q) == Len(p) <= Len(q) /\ p = SubSeq(q, 1, Len(p))

\* The facts messages the browser has handled.
FactsDelivered == Cardinality({i \in 1..nDelivered : toClient[i].type = "facts"})

ScenarioTypes == <<"session_started", "CONFIG_ACCEPTED", "transcript", "facts", "facts", "ended">>

\* C12. End-to-end scenario: all along the session what the browser was sent
\* is a prefix of session_started, CONFIG_ACCEPTED, transcript (final),
\* facts, facts, ended, and the sendAudio calls are a prefix of frames 1, 2,
\* 3; the client's list has 2 facts once it handled the first facts message
\* and 1 once it handled the second; and when ENDED was handled the browser
\* was sent exactly the six messages and the provider exactly the three
\* frames in order.
C12_EndToEnd ==
    /\ IsPrefix(Types(toClient), ScenarioTypes)
    /\ Len(toClient) >= 3 => toClient[3].data[1].isFinal
    /\ IsPrefix(AudioFrames(providerCalls), <<1, 2, 3>>)
    /\ FactsDelivered = 1 => Len(facts) = 2
    /\ FactsDelivered = 2 => Len(facts) = 1
    /\ providerEnded =>
          /\ Types(toClient) = ScenarioTypes
          /\ AudioFrames(providerCalls) = <<1, 2, 3>>

\* C12 witness: the whole session ran: ENDED was handled, the browser
\* handled the six messages and closed, one fact is left.
C12_Witness ==
    /\ providerEnded /\ nDelivered = 6 /\ clientReadyState = CLOSED
    /\ Len(facts) = 1 /\ removed # {}
    /\ Len(providerCalls) = 4 /\ Last(providerCalls).op = "sendEnd"

\* C24. The closed flag is monotonic: once isStreamClosed is true no step
\* makes it false.
C24_ClosedMonotonic == [][isStreamClosed => isStreamClosed']_vars

\* C24 witness: the flag was set by closeStream, the provider connection
\* closed afterwards and a frame arrived after that.
C24_Witness ==
    /\ isStreamClosed /\ endSent /\ ~providerOpen
    /\ nClientMsgs = MaxClientMsgs /\ nProviderEvents > 0

\* C25. The gate flag becomes true once: once isConfigAccepted is true it
\* stays true, and a session in which CONFIG_ACCEPTED was handled never has
\* it change from false to true again.
C25_AcceptedOnce ==
    [][/\ isConfigAccepted => isConfigAccepted'
       /\ (everAccepted /\ ~isConfigAccepted) => ~isConfigAccepted']_vars

\* A sendAudio call threw in this step: the first throw of the session, or
\* a live frame whose call was made without the counter moving.
SendAudioThrew ==
    \/ ~audioFailed /\ audioFailed'
    \/ /\ isConfigAccepted /\ rxAudio' # rxAudio
       /\ audioChunkCount' = audioChunkCount

\* C26. Best-effort forwarding: a step in which a sendAudio call throws
\* leaves the closed flag as it was, does not shut the gate and sends the
\* browser nothing (but the CONFIG_ACCEPTED of the flush it happens in); the
\* flush still calls sendAudio for every queued frame in order; and after a
\* throw every audio frame handled with the gate open is passed to sendAudio.
C26_BestEffortForwarding ==
    [][/\ SendAudioThrew =>
              /\ isStreamClosed' = isStreamClosed
              /\ isConfigAccepted => isConfigAccepted'
              /\ \A i \in Len(toClient) + 1..Len(toClient') :
                     toClient'[i].type = "CONFIG_ACCEPTED" /\ ~isConfigAccepted
       /\ (~isConfigAccepted /\ isConfigAccepted') =>
              AudioFrames(providerCalls') = AudioFrames(providerCalls) \o audioQueue
       /\ (audioFailed /\ isConfigAccepted /\ rxAudio' # rxAudio) =>
              providerCalls' = Append(providerCalls, Call("sendAudio", Last(rxAudio')))]_vars

\* C26 witness: a queued frame and live frames were passed to sendAudio,
\* some call threw and some live call returned; the stream is open, the gate
\* too, and the browser was sent no error.
C26_Witness ==
    /\ audioFailed /\ audioChunkCount > 0
    /\ Len(AudioFrames(providerCalls)) = MaxClientMsgs
    /\ isConfigAccepted /\ ~isStreamClosed
    /\ \A i \in 1..Len(toClient) : toClient[i].type # "error"

\* ---------------------------------------------------- claims: transcript
\* C21. Interim clears on final: the handling of a final segment leaves the
\* interim text empty, whatever it was; and when the interim text is "foo"
\* and no segment is finalized, a final segment of text "bar" leaves the
\* interim text empty and that one segment as the finalized sequence.
C21_InterimClearsOnFinal ==
    [][\A data \in TranscriptData :
          (data.isFinal /\ ReceiveTranscript(data)) =>
              /\ interimText' = ""
              /\ (interimText = "foo" /\ segments = <<>> /\ data.text = "bar") =>
                    segments' = <<data>>]_vars

\* C21 witness: the interim text was "foo" when a final segment of text
\* "bar" arrived; it is the one finalized segment and the interim text is
\* empty.
C21_Witness ==
    /\ lastApplied = "appended" /\ interimBefore = "foo" /\ interimText = ""
    /\ segments = <<[id |-> "a", text |-> "bar", isFinal |-> TRUE, start |-> 5]>>

NoDuplicateIds(list) == \A i, j \in 1..Len(list) : list[i].id = list[j].id => i = j

\* C22. The finalized sequence never holds two segments with one id: a
\* final segment whose id is present takes the place of that entry (same
\* length, the entry at the same position now final and carrying the text of
\* the message, every other entry as it was), and one with a new id is
\* appended after the entries, which stay as they were.
C22_ReplacedInPlace ==
    [][/\ NoDuplicateIds(segments')
       /\ \A data \in TranscriptData :
             (data.isFinal /\ ReceiveTranscript(data)) =>
                 IF \E i \in 1..Len(segments) : segments[i].id = data.id
                 THEN /\ Len(segments') = Len(segments)
                      /\ \A i \in 1..Len(segments) :
                            IF segments[i].id = data.id
                            THEN /\ segments'[i].id = data.id
                                 /\ segments'[i].isFinal
                                 /\ data.text # NoText => segments'[i].text = data.text
                            ELSE segments'[i] = segments[i]
                 ELSE segments' = Append(segments, data)]_vars

\* C22 witness: two segments are finalized, b after a, and the last message
\* replaced the first of them with another text.
C22_Witness ==
    /\ lastApplied = "replaced" /\ Len(segments) = 2
    /\ segments[1].id = "a" /\ segments[2].id = "b"
    /\ segments[1].text = "bar" /\ segments[2].text = "foo"

\* The transcript messages among what the browser was sent.
TranscriptsSent == {i \in 1..Len(toClient) : toClient[i].type = "transcript"}

\* C23. Two revisions of one provider segment (the same provider id and the
\* same start time, a start time of 0 or none included) are relayed with the
\* same composite id, and the client holds one entry for them: it replaces
\* the earlier revision and appends no duplicate.
C23_RevisionsShareId ==
    /\ \A i, j \in TranscriptsSent :
          (/\ toClient[i].data[1].id[1] = toClient[j].data[1].id[1]
           /\ toClient[i].data[1].start = toClient[j].data[1].start)
              => toClient[i].data[1].id = toClient[j].data[1].id
    /\ \A i, j \in 1..Len(segments) :
          (segments[i].id[1] = segments[j].id[1] /\ segments[i].start = segments[j].start)
              => i = j

\* ---------------------------------------------------------- claims: usage
\* The sum of the credits of the usage messages among the first k of seq.
UsageSum(seq, k) ==
    LET F[i \in 0..k] ==
            IF i = 0 THEN 0
            ELSE F[i - 1] + (IF seq[i].type = "usage" THEN seq[i].data[1] ELSE 0)
    IN F[k]

UsageCount(seq, k) == Cardinality({i \in 1..k : seq[i].type = "usage"})

\* C27. Usage is relayed as deltas and summed by the client: the usage
\* message sent for a usage event carries the credits of that event, and
\* once the client has handled usage messages since the last reset its
\* credits value is the sum of their credits (before the first one, and
\* after a reset, it has no value).
C27_UsageSummed ==
    [][/\ \A msg \in UsageMessages :
             (msg.type = "usage" /\ BrowserOpen /\ ProviderMessage(msg, AllSent)) =>
                 toClient' = Append(toClient, [type |-> "usage", a |-> "", b |-> "",
                                               data |-> msg.data])
       /\ credits' = IF wasReset' \/ UsageCount(toClient', nDelivered') = 0
                     THEN NoCredits
                     ELSE <<UsageSum(toClient', nDelivered')>>]_vars

\* C27 witness: the provider reported 1 credit and then 2; the client
\* handled both messages and shows 3.
C27_Witness ==
    /\ Len(toClient) = 3 /\ nDelivered = 3
    /\ toClient[2].type = "usage" /\ toClient[2].data = <<1>>
    /\ toClient[3].type = "usage" /\ toClient[3].data = <<2>>
    /\ credits = <<3>>

\* ------------------------------------------------------ claims: sessions
\* C28. Sessions are independent: a step in which one of two concurrent
\* sessions handles an event (a frame, a control message, a provider event,
\* a disconnect) leaves the other session's audioQueue, isConfigAccepted,
\* isStreamClosed and interactionId as they were, sends nothing to the other
\* session's browser and calls nothing on its provider handle.
C28_SessionsIndependent ==
    [][\A s \in Sessions, t \in Sessions :
          (s # t /\ pair'[s] # pair[s]) =>
              /\ pair'[t].audioQueue = pair[t].audioQueue
              /\ pair'[t].isConfigAccepted = pair[t].isConfigAccepted
              /\ pair'[t].isStreamClosed = pair[t].isStreamClosed
              /\ pair'[t].interactionId = pair[t].interactionId
              /\ pair'[t].sent = pair[t].sent
              /\ pair'[t].calls = pair[t].calls
              /\ pair'[t].readyState = pair[t].readyState]_vars

\* C28 witness: both sessions are attached, each with its own interaction;
\* the first was accepted and its queue flushed, then it was ended; the
\* second still holds a frame in its queue behind a shut gate.
C28_Witness ==
    /\ pair[1].phase = "attached" /\ pair[2].phase = "attached"
    /\ pair[1].interactionId = "id1" /\ pair[2].interactionId = "id2"
    /\ pair[1].isStreamClosed /\ pair[1].audioQueue = <<>>
    /\ pair[1].sent = <<"session_started", "CONFIG_ACCEPTED">>
    /\ ~pair[2].isStreamClosed /\ ~pair[2].isConfigAccepted
    /\ Len(pair[2].audioQueue) = 1 /\ pair[2].calls = <<>>

\* ------------------------------------------------------- claims: gateway
\* The body has a non-empty array context, a templateKey and an
\* outputLanguage.
HasRequiredFields(body) ==
    /\ body.context = "array"
    /\ body.templateKey # "absent"
    /\ body.outputLanguage # "absent"

C30_FailurePassthrough ==
    (httpLast.calls # <<>> /\ ~httpLast.provider.ok) =>
        /\ httpLast.status = httpLast.provider.status
        /\ httpLast.details = httpLast.provider.detail
        /\ Len(httpLast.calls) = 1

\* ------------------------------------------------- claims: relay, safety
\* C32. No audio after end: in what was called on the provider handle no
\* sendAudio call comes after the end control (sendEnd, or close), also when
\* CONFIG_ACCEPTED arrives after the end was sent while frames are queued.
C32_NoAudioAfterEnd ==
    \A i, j \in 1..Len(providerCalls) :
        (i < j /\ providerCalls[i].op \in {"sendEnd", "close"})
            => providerCalls[j].op # "sendAudio"

\* C33. Gate invariant: while isConfigAccepted is true audioQueue is empty.
C33_OpenGateEmptyQueue == isConfigAccepted => audioQueue = <<>>

\* C33 witness: two frames were queued behind the shut gate, the gate opened
\* and flushed them, and a third frame went straight to the provider; the
\* queue is empty.
C33_Witness ==
    /\ isConfigAccepted /\ audioQueue = <<>> /\ ~isStreamClosed
    /\ rxAudio = <<1, 2, 3>> /\ AudioFrames(providerCalls) = <<1, 2, 3>>
    /\ audioChunkCount = 1

\* C34. Nothing is sent to a browser that went away: once the close or the
\* error handler of the browser connection has run (isClientConnected is
\* false), no step sends the browser anything; nor does any step once the
\* browser's socket is closed.
C34_NoSendAfterDisconnect ==
    [][(~isClientConnected \/ clientReadyState = CLOSED) => toClient' = toClient]_vars

\* C34 witness: the error handler of the browser connection ran while its
\* socket was open; ENDED was handled afterwards and the browser was not
\* sent ended.
C34_Witness ==
    /\ ~isClientConnected /\ clientReadyState = OPEN
    /\ providerEnded /\ nProviderEvents = MaxProviderEvents
    /\ \A i \in 1..Len(toClient) : toClient[i].type # "ended"

\* ----------------------------------------------- claims: facts, redelivery
\* C35. Fact display order is stable under redelivery: whatever the visible
\* list, merging a batch a second time gives the same list, entry by entry
\* in the same order, as merging it once.
C35_RedeliveryKeepsOrder ==
    \A B \in Batches :
        LET once == Merge(facts, B)
        IN Merge(once, B) = once

\* ------------------------------------------------ claims: interim transcript
\* C39. A non-final transcript message changes only the interim text: the
\* interim text becomes the text of the message (empty when it has none),
\* whatever it was, and the finalized segments, the facts and the credits
\* stay as they were.
C39_InterimOnly ==
    [][\A data \in TranscriptData :
          (~data.isFinal /\ ReceiveTranscript(data)) =>
              /\ interimText' = (IF data.text = NoText THEN "" ELSE data.text)
              /\ segments' = segments
              /\ facts' = facts
              /\ credits' = credits]_vars

\* C39 witness: with two segments finalized and the interim text "foo", a
\* non-final message of text "bar" arrived: the interim text is "bar" and
\* the two segments are there.
C39_Witness ==
    /\ lastApplied = "interim" /\ interimBefore = "foo" /\ interimText = "bar"
    /\ Len(segments) = 2

\* C31: a received document is read-only: whatever views were shown, the
\* document state, the order of its sections included, is the document the
\* gateway returned.
C31_DocumentAsReceived == document = received

\* The browser has handled CONFIG_ACCEPTED.
AcceptedHandled == \E i \in 1..nDelivered : toClient[i].type = "CONFIG_ACCEPTED"

C37_SomeButtonEnabled == RecordEnabled \/ ResetEnabled

\* C38: once the browser's socket has closed, after the relay reported a
\* fatal failure and closed the connection or after the client started
\* streaming, and Reset was not pressed, the status is 'disconnected' or
\* 'error'.
C38_StatusLeaves ==
    (closeSeen /\ ~wasReset /\ (phase = "failed" \/ AcceptedHandled))
        => status \in {"disconnected", "error"}

====
